---------------------------- MODULE Spec2Model ----------------------------
(***************************************************************************)
(* ProHost booking manager: the occupancy / revenue report engine.         *)
(*                                                                         *)
(* Server side (prohost-server): the booking store written by              *)
(* createBooking, the tenant's room list written by removeRoom, and the    *)
(* getOccupancyReport resolver.                                            *)
(* Client side (src/App.tsx): the in-memory booking list filled by         *)
(* loadMonthBookings, the report controls, and the memoised reportData,    *)
(* filteredBookings and calendar cells computed from them.                 *)
(*                                                                         *)
(* Time.  Day 0 is 2026-01-01; the calendar covers January to May 2026.    *)
(* An instant is a number of hours since 2026-01-01T00:00Z.  The server    *)
(* runs in UTC.  The browser's UTC offset (hours) is the variable tz.      *)
(*                                                                         *)
(* Strings.  A date string is a record [d, h]: h = -1 is the date-only     *)
(* form "yyyy-MM-dd" (what <input type=date> and format(.,'yyyy-MM-dd')    *)
(* give), h >= 0 is the ISO DateTime "yyyy-MM-ddThh:00:00.000Z" (what the  *)
(* server's DateTime fields serialise to).  JavaScript compares strings    *)
(* by code unit, so the date-only form, a proper prefix, sorts before      *)
(* every DateTime of the same day.                                         *)
(***************************************************************************)
EXTENDS Integers, Sequences, FiniteSets, TLC

\* ------------------------------------------------------------- calendar

\* Lengths of January .. May 2026.
MonthLens == <<31, 28, 31, 30, 31>>

Months == 1..Len(MonthLens)

RECURSIVE MonthStart(_)
\* First day (day number) of month m.
MonthStart(m) == IF m = 1 THEN 0 ELSE MonthStart(m - 1) + MonthLens[m - 1]

\* Last day (day number) of month m.
MonthLast(m) == MonthStart(m) + MonthLens[m] - 1

\* getDaysInMonth(date)
getDaysInMonth(m) == MonthLens[m]

\* The month a day falls in.
MonthOfDay(d) == CHOOSE m \in Months : MonthStart(m) <= d /\ d <= MonthLast(m)

Min(a, b) == IF a <= b THEN a ELSE b
Max(a, b) == IF a >= b THEN a ELSE b

\* Math.trunc(a / b) for b > 0: division rounding toward zero.
TruncDiv(a, b) == IF a >= 0 THEN a \div b ELSE -((-a) \div b)

\* Math.floor(a / b) for b > 0.
FloorDiv(a, b) == a \div b

RECURSIVE Gcd(_, _)
Gcd(a, b) == IF b = 0 THEN a ELSE Gcd(b, a % b)

\* The number n / d (d > 0, n >= 0) as a fraction in lowest terms; two
\* JavaScript numbers computed as quotients are equal iff these are.
Frac(n, d) == LET g == Gcd(n, d) IN [num |-> n \div g, den |-> d \div g]

\* ------------------------------------------------------- dates, strings

\* The date-only string "yyyy-MM-dd" of day d.
DateStr(d) == [d |-> d, h |-> -1]

\* Date.prototype.toISOString / toJSON of an instant: "yyyy-MM-ddThh:..Z".
toISOString(i) == [d |-> i \div 24, h |-> i % 24]

\* a <= b and a < b on strings (lexicographic, by code unit).
StrLE(a, b) == a.d < b.d \/ (a.d = b.d /\ a.h <= b.h)
StrLT(a, b) == a.d < b.d \/ (a.d = b.d /\ a.h < b.h)

\* s.split('T')[0]
SplitT0(s) == DateStr(s.d)

\* new Date(s) on the server (UTC): both forms parse as UTC.
NewDate(s) == 24 * s.d + (IF s.h < 0 THEN 0 ELSE s.h)

\* date-fns parseISO in a browser at UTC offset off: the date-only form is
\* local midnight, a DateTime with Z is that instant.
parseISO(s, off) == IF s.h < 0 THEN 24 * s.d - off ELSE 24 * s.d + s.h

\* The local calendar day of an instant.
LocalDay(i, off) == (i + off) \div 24

\* format(date, 'yyyy-MM-dd')
format(i, off) == DateStr(LocalDay(i, off))

\* format(date, 'yyyy-MM'): the month key.
formatMonth(i, off) == MonthOfDay(LocalDay(i, off))

\* addDays(date, n)
addDays(i, n) == i + 24 * n

\* differenceInDays(a, b): full 24 h periods, truncated toward zero.
differenceInDays(a, b) == TruncDiv(a - b, 24)

\* differenceInCalendarDays(a, b) on the server (UTC).
differenceInCalendarDays(a, b) == (a \div 24) - (b \div 24)


\* ---------------------------------------------------------------- state

VARIABLES
    tz,               \* browser UTC offset in hours (environment, fixed)
    dateFns,          \* major version of date-fns in the client build
    now,              \* server clock (instant); createdAt of the next booking
    rooms,            \* the tenant's room list (sequence of room ids)
    db,               \* server: the tenant's stored bookings, oldest first
    bookings,         \* client: useState<Booking[]> (App.tsx:916)
    loadedMonths,     \* client: useState<Set<string>> (App.tsx:917)
    reportStartDate,  \* client report controls (App.tsx:928-931)
    reportEndDate,
    reportRoomFilter,
    reportType,
    reportOut,        \* client: the memoised reportData (App.tsx:1190)
    listSearchTerm,   \* client list controls (App.tsx:933-934)
    listFilter,
    listOut,          \* client: the memoised filteredBookings (App.tsx:1136)
    defaultTax,       \* server: the tenant's settings.defaultTax, a percentage
    lastError,        \* the error the last write call answered with ("" if none)
    calls,            \* the write calls answered so far
    online,           \* client: whether a request to the server succeeds
    inflight,         \* client: month loads answered by the server, not yet merged
    tenants,          \* server: the tenant table, by tenant id
    table,            \* server: the booking table of all tenants, oldest first
    reply             \* server: the call answered last, with its answer

vars == <<tz, dateFns, now, rooms, db, bookings, loadedMonths,
          reportStartDate, reportEndDate, reportRoomFilter, reportType,
          reportOut, listSearchTerm, listFilter, listOut,
          defaultTax, lastError, calls, online, inflight,
          tenants, table, reply>>

\* The environment, the report controls and the list view.
envVars == <<tz, dateFns>>
reportControls == <<reportStartDate, reportEndDate, reportRoomFilter, reportType>>
listVars == <<listSearchTerm, listFilter, listOut>>

\* The tenant's tax setting and the answers of the write calls.
writeVars == <<defaultTax, lastError, calls>>

\* The network as the client sees it.
netVars == <<online, inflight>>

\* The tables shared by all tenants and the last answer of the server.
accountVars == <<tenants, table, reply>>

\* The state of the client.
clientVars == <<bookings, loadedMonths, reportControls, reportOut, listVars>>

\* ----------------------------------------------------- server: bookings

\* String.prototype.toLowerCase / toUpperCase on a booking status.
toLowerCase(s) ==
    CASE s = "UPCOMING" -> "upcoming"
      [] s = "ACTIVE" -> "active"
      [] s = "COMPLETED" -> "completed"
      [] s = "CANCELED" -> "canceled"
      [] s = "NO_SHOW" -> "no_show"
      [] OTHER -> s

toUpperCase(s) ==
    CASE s = "upcoming" -> "UPCOMING"
      [] s = "active" -> "ACTIVE"
      [] s = "completed" -> "COMPLETED"
      [] s = "canceled" -> "CANCELED"
      [] s = "no_show" -> "NO_SHOW"
      [] OTHER -> s

\* calculateBookingDetails rejecting only nights < 0.
calculateBookingDetailsFromZeroNights(input, taxRate) ==
    LET checkIn == NewDate(input.checkIn)
        checkOut == NewDate(input.checkOut)
        nights == differenceInCalendarDays(checkOut, checkIn)
        totalPrice == nights * input.nightPrice
        tax == totalPrice * taxRate
    IN IF nights < 0
       THEN [error |-> "Check-out must be after check-in"]
       ELSE [error |-> "", nights |-> nights, totalPrice |-> totalPrice,
             tax |-> tax,
             remaining |-> 100 * totalPrice + tax - 100 * input.deposit]

\* calculateBookingDetails(input, taxRate): "error" when nights <= 0.
\* tax and remaining are kept in hundredths (taxRate is a percentage).
calculateBookingDetails(input, taxRate) ==
    LET checkIn == NewDate(input.checkIn)
        checkOut == NewDate(input.checkOut)
        nights == differenceInCalendarDays(checkOut, checkIn)
        totalPrice == nights * input.nightPrice
        tax == totalPrice * taxRate
    IN IF nights <= 0
       THEN [error |-> "Check-out must be after check-in"]
       ELSE [error |-> "", nights |-> nights, totalPrice |-> totalPrice,
             tax |-> tax,
             remaining |-> 100 * totalPrice + tax - 100 * input.deposit]

\* rooms.find(r => r.id === id) !== undefined
HasRoom(rs, id) == \E i \in 1..Len(rs) : rs[i] = id

\* The row prisma.booking.create stores for a createBooking input that
\* passed both validations (id and createdAt are the store's defaults).
NewBookingRow(input, details, id, at) ==
    [id |-> id,
     guestName |-> input.guestName,
     guestPhone |-> input.guestPhone,
     city |-> input.city,
     room |-> input.room,
     checkIn |-> NewDate(input.checkIn),
     checkOut |-> NewDate(input.checkOut),
     nightPrice |-> input.nightPrice,
     deposit |-> input.deposit,
     status |-> IF input.status = "" THEN "upcoming"
                ELSE toLowerCase(input.status),
     nights |-> details.nights,
     totalPrice |-> details.totalPrice,
     tax |-> details.tax,
     remaining |-> details.remaining,
     createdAt |-> at]

\* Mutation.createBooking: the error it throws ("" when it succeeds).
createBookingError(rs, input, taxRate) ==
    IF ~HasRoom(rs, input.room) THEN "Invalid room"
    ELSE calculateBookingDetails(input, taxRate).error

\* normalizeBooking, then the response's JSON: status upper-cased, every
\* DateTime field as its ISO string.
normalizeBooking(b) ==
    [b EXCEPT !.status = toUpperCase(b.status),
              !.checkIn = toISOString(b.checkIn),
              !.checkOut = toISOString(b.checkOut),
              !.createdAt = toISOString(b.createdAt)]

\* Array.prototype.filter and prisma's findMany where are SelectSeq: a new
\* sequence of the elements that pass, in their order.

RECURSIVE InsertByKey(_, _)
\* The pair p = <<key, x>> put into the key-sorted sequence of pairs s,
\* after every pair whose key is not greater.
InsertByKey(s, p) ==
    IF s = <<>> THEN <<p>>
    ELSE IF p[1] < Head(s)[1] THEN <<p>> \o s
    ELSE <<Head(s)>> \o InsertByKey(Tail(s), p)

RECURSIVE SortPairs(_)
\* A stable ascending sort of a sequence of <<key, x>> pairs.
SortPairs(s) ==
    IF s = <<>> THEN <<>>
    ELSE InsertByKey(SortPairs(SubSeq(s, 1, Len(s) - 1)), s[Len(s)])

\* s sorted ascending by the integer keys[i] of its i-th element, stable.
SortAsc(s, keys) ==
    LET sorted == SortPairs([i \in 1..Len(s) |-> <<keys[i], s[i]>>])
    IN [i \in 1..Len(s) |-> sorted[i][2]]

RECURSIVE MapNormalize(_)
MapNormalize(s) ==
    IF s = <<>> THEN <<>> ELSE <<normalizeBooking(Head(s))>> \o MapNormalize(Tail(s))

\* Query.getBookingsByDateRange(startDate, endDate) for the tenant.
getBookingsByDateRange(store, startDate, endDate) ==
    LET start == NewDate(startDate)
        end == NewDate(endDate)
        InRange(b) == b.checkIn >= start /\ b.checkOut <= end
        found == SelectSeq(store, InRange)
    IN IF start > end THEN [error |-> "Start date must be before end date", rows |-> <<>>]
       ELSE [error |-> "",
             rows |-> MapNormalize(SortAsc(found, [i \in 1..Len(found) |-> found[i].checkIn]))]

\* Mutation.removeRoom: the room list it stores.
removeRoom(rs, roomId) ==
    LET Other(r) == r # roomId IN SelectSeq(rs, Other)


RECURSIVE Sum(_)
\* reduce((sum, x) => sum + x, 0) over a sequence of numbers.
Sum(s) == IF s = <<>> THEN 0 ELSE Head(s) + Sum(Tail(s))

\* ------------------------------------------------------ server: reports

\* The rooms getOccupancyReport assumes when no room is given.
ServerDefaultRoomCount == 5

\* The rows getOccupancyReport's findMany selects for month m: room = ""
\* stands for an absent (or empty, hence falsy) room argument.
OccupancyRows(store, room, m) ==
    LET startDate == 24 * MonthStart(m)
        endDate == 24 * MonthLast(m)
        Match(b) == /\ b.checkIn <= endDate
                    /\ b.checkOut >= startDate
                    /\ b.status # "CANCELED"
                    /\ (room # "" => b.room = room)
    IN SelectSeq(store, Match)

\* One booking's share of occupiedNights in getOccupancyReport.
ServerNights(b, m) ==
    LET startDate == 24 * MonthStart(m)
        endDate == 24 * MonthLast(m)
        start == IF b.checkIn > startDate THEN b.checkIn ELSE startDate
        end == IF b.checkOut < endDate THEN b.checkOut ELSE endDate
    IN Max(0, FloorDiv(end - start, 24))

\* Math.round(x * 100) / 100 for x = 100 * n / d, as a fraction.
Round2(n, d) == Frac((2 * 10000 * n + d) \div (2 * d), 100)

\* Query.getOccupancyReport(room, year 2026, month m).
getOccupancyReport(store, room, m) ==
    IF m < 1 \/ m > 12 THEN [error |-> "Month must be between 1 and 12"]
    ELSE
    LET rows == OccupancyRows(store, room, m)
        occupiedNights == Sum([i \in 1..Len(rows) |-> ServerNights(rows[i], m)])
        totalNights == getDaysInMonth(m) * (IF room # "" THEN 1 ELSE ServerDefaultRoomCount)
    IN [error |-> "",
        room |-> IF room # "" THEN room ELSE "All",
        month |-> m,
        totalNights |-> totalNights,
        occupiedNights |-> occupiedNights,
        occupancyRate |-> IF totalNights > 0 THEN Round2(occupiedNights, totalNights)
                          ELSE Frac(0, 1)]

\* ------------------------------------------------------- client: report

DEFAULT_ROOMS == <<"A1", "A2", "A3", "A4", "A5">>

\* const rooms = session.tenant.rooms?.length ? session.tenant.rooms : DEFAULT_ROOMS
ClientRooms(rs) == IF Len(rs) > 0 THEN rs ELSE DEFAULT_ROOMS

\* The tenant timezone formatTz falls back to (Asia/Muscat, UTC+4).
TenantTzOffset == 4

\* ReportFiltered without its status test.
ReportFilteredKeepingCanceled(bks, startStr, endStr, roomFilter, type) ==
    LET Keep(b) ==
            LET dateToCompare == IF type = "stay" THEN b.checkIn ELSE SplitT0(b.createdAt)
                inRange == StrLE(startStr, dateToCompare) /\ StrLE(dateToCompare, endStr)
                roomMatch == roomFilter = "ALL" \/ b.room = roomFilter
            IN inRange /\ roomMatch
    IN SelectSeq(bks, Keep)

\* reportData's first filter: the bookings the totals are taken over.
ReportFiltered(bks, startStr, endStr, roomFilter, type) ==
    LET Keep(b) ==
            LET dateToCompare == IF type = "stay" THEN b.checkIn ELSE SplitT0(b.createdAt)
                inRange == StrLE(startStr, dateToCompare) /\ StrLE(dateToCompare, endStr)
                roomMatch == roomFilter = "ALL" \/ b.room = roomFilter
            IN b.status # "CANCELED" /\ inRange /\ roomMatch
    IN SelectSeq(bks, Keep)

\* differenceInDays(end, start) + 1 of the report window.
DaysInReport(startStr, endStr, off) ==
    differenceInDays(parseISO(endStr, off), parseISO(startStr, off)) + 1

\* The test the occupied-day loop applies to one booking:
\* dStr >= b.checkIn && dStr < b.checkOut, on strings.
LoopCovers(b, dStr) == StrLE(b.checkIn, dStr) /\ StrLT(dStr, b.checkOut)

\* IsOccupiedOn with every in place of some.
IsOccupiedOnEvery(roomBookings, start, k, off) ==
    LET dStr == format(addDays(start, k), off)
    IN \A i \in 1..Len(roomBookings) : LoopCovers(roomBookings[i], dStr)

\* The isOccupied test of the occupied-day loop, for the loop's k-th day.
IsOccupiedOn(roomBookings, start, k, off) ==
    LET dStr == format(addDays(start, k), off)
    IN \E i \in 1..Len(roomBookings) : LoopCovers(roomBookings[i], dStr)

\* occupiedDays after the while loop over the report window.
OccupiedDays(roomBookings, startStr, endStr, off) ==
    LET start == parseISO(startStr, off)
        daysInReport == DaysInReport(startStr, endStr, off)
    IN IF daysInReport > 0
       THEN Cardinality({k \in 0..(daysInReport - 1) : IsOccupiedOn(roomBookings, start, k, off)})
       ELSE 0

\* One entry of roomStats.
RoomStat(filtered, room, startStr, endStr, off) ==
    LET InRoom(b) == b.room = room
        roomBookings == SelectSeq(filtered, InRoom)
        daysInReport == DaysInReport(startStr, endStr, off)
        occupiedDays == OccupiedDays(roomBookings, startStr, endStr, off)
    IN [roomId |-> room,
        totalNights |-> Sum([i \in 1..Len(roomBookings) |-> roomBookings[i].nights]),
        totalRevenue |-> Sum([i \in 1..Len(roomBookings) |-> roomBookings[i].totalPrice]),
        occupancyRate |-> IF daysInReport > 0 THEN Frac(100 * occupiedDays, daysInReport)
                          ELSE Frac(0, 1)]

\* eachMonthOfInterval({start, end}): the months from start's to end's.
\* For start after end date-fns 2 throws RangeError; date-fns 3 and later
\* give the months from end's to start's in descending order.
eachMonthOfInterval(start, end, off, major) ==
    LET ms == formatMonth(start, off)
        me == formatMonth(end, off)
    IN IF start <= end
       THEN [error |-> "", months |-> [i \in 1..(me - ms + 1) |-> ms + i - 1]]
       ELSE IF major <= 2
       THEN [error |-> "RangeError: Invalid interval", months |-> <<>>]
       ELSE [error |-> "", months |-> [i \in 1..(ms - me + 1) |-> ms - i + 1]]

\* monthBookings of month m inside monthlyStats.
MonthBookings(bks, m, roomFilter) ==
    LET monthEnd == DateStr(MonthLast(m))
        realStart == DateStr(MonthStart(m))
        Keep(b) == /\ b.status # "CANCELED"
                   /\ StrLE(b.checkIn, monthEnd)
                   /\ StrLT(realStart, b.checkOut)
                   /\ (roomFilter = "ALL" \/ b.room = roomFilter)
    IN SelectSeq(bks, Keep)

\* One booking's share of a month's occupancy: Math.max(0, days).
MonthNights(b, m, off) ==
    LET monthEnd == DateStr(MonthLast(m))
        realStart == DateStr(MonthStart(m))
        s == IF StrLT(b.checkIn, realStart) THEN parseISO(realStart, off)
             ELSE parseISO(b.checkIn, off)
        e == IF StrLT(monthEnd, b.checkOut) THEN parseISO(monthEnd, off)
             ELSE parseISO(b.checkOut, off)
    IN Max(0, differenceInDays(e, s))

\* A month's revenue: the totalPrice of the monthBookings checking in in it.
MonthRevenue(monthBookings, m) ==
    LET monthEnd == DateStr(MonthLast(m))
        realStart == DateStr(MonthStart(m))
    IN Sum([i \in 1..Len(monthBookings) |->
              IF StrLE(realStart, monthBookings[i].checkIn)
                 /\ StrLE(monthBookings[i].checkIn, monthEnd)
              THEN monthBookings[i].totalPrice ELSE 0])

\* A month's occupancy: the sum of the monthBookings' shares.
MonthOccupancy(monthBookings, m, off) ==
    Sum([i \in 1..Len(monthBookings) |-> MonthNights(monthBookings[i], m, off)])

\* totalPossibleNights of month m.
MonthPossibleNights(m, off) ==
    differenceInDays(parseISO(DateStr(MonthLast(m)), off),
                     parseISO(DateStr(MonthStart(m)), off)) + 1

\* totalRooms: reportRoomFilter === 'ALL' ? rooms.length : 1
MonthTotalRooms(roomFilter, rs) == IF roomFilter = "ALL" THEN Len(rs) ELSE 1

\* One entry of monthlyStats.  The label is the month "MMM yyyy" of the
\* month's first local midnight as seen in the tenant's timezone.
MonthStat(bks, m, roomFilter, rs, off) ==
    LET monthBookings == MonthBookings(bks, m, roomFilter)
        occupancy == MonthOccupancy(monthBookings, m, off)
        totalPossibleNights == MonthPossibleNights(m, off)
        totalRooms == MonthTotalRooms(roomFilter, rs)
    IN [month |-> formatMonth(24 * MonthStart(m) - off, TenantTzOffset),
        revenue |-> MonthRevenue(monthBookings, m),
        fillRate |-> IF totalPossibleNights > 0
                     THEN Frac(100 * occupancy, totalPossibleNights * totalRooms)
                     ELSE Frac(0, 1)]

\* The useMemo body: reportData; error is the exception it throws, if any.
reportData(bks, startStr, endStr, roomFilter, type, rs, off, major) ==
    LET filtered == ReportFiltered(bks, startStr, endStr, roomFilter, type)
        each == eachMonthOfInterval(parseISO(startStr, off), parseISO(endStr, off),
                                    off, major)
        months == each.months
    IN IF each.error # "" THEN [error |-> each.error] ELSE
       [error |-> "",
        roomStats |-> [i \in 1..Len(rs) |-> RoomStat(filtered, rs[i], startStr, endStr, off)],
        totalRevenue |-> Sum([i \in 1..Len(filtered) |-> filtered[i].totalPrice]),
        totalNights |-> Sum([i \in 1..Len(filtered) |-> filtered[i].nights]),
        bookingCount |-> Len(filtered),
        monthlyStats |-> [i \in 1..Len(months) |-> MonthStat(bks, months[i], roomFilter, rs, off)]]


\* --------------------------------------------------------- client: load

\* startOfMonth / endOfMonth of a date in month m, as 'yyyy-MM-dd'.
MonthStartStr(m) == DateStr(MonthStart(m))
MonthEndStr(m) == DateStr(MonthLast(m))

\* dataService.getBookingsByDateRange: the rows, or [] when the query fails.
FetchRange(store, startDate, endDate) ==
    LET res == getBookingsByDateRange(store, startDate, endDate)
    IN IF res.error = "" THEN res.rows ELSE <<>>

\* The setBookings updater of loadMonthBookings for month key m.
MergeMonth(prev, m, monthBookings, off) ==
    LET Keep(b) == formatMonth(parseISO(b.checkIn, off), off) # m
    IN SelectSeq(prev, Keep) \o monthBookings

\* loadMonthBookings(date in month m, force): the new <<bookings, loadedMonths>>.
loadMonthBookings(prev, loaded, store, m, force, off) ==
    IF force \/ m \notin loaded
    THEN <<MergeMonth(prev, m, FetchRange(store, MonthStartStr(m), MonthEndStr(m)), off),
           loaded \cup {m}>>
    ELSE <<prev, loaded>>

RECURSIVE LoadMonths(_, _, _, _, _)
\* loadInitialMonths: loadMonthBookings for each month of ms in turn.
LoadMonths(prev, loaded, store, ms, off) ==
    IF ms = <<>> THEN <<prev, loaded>>
    ELSE LET r == loadMonthBookings(prev, loaded, store, Head(ms), FALSE, off)
         IN LoadMonths(r[1], r[2], store, Tail(ms), off)


\* ----------------------------------------------------- client: calendar

\* cellBookings of the calendar cell of room roomId and day dStr.
cellBookings(bks, roomId, dStr, off) ==
    LET InCell(b) ==
            LET inRoom == b.room = roomId
                checkInDate == parseISO(b.checkIn, off)
                checkOutDate == parseISO(b.checkOut, off)
                cellDate == parseISO(dStr, off)
            IN b.status # "CANCELED" /\ inRoom
               /\ cellDate >= checkInDate /\ cellDate < checkOutDate
    IN SelectSeq(bks, InCell)

\* --------------------------------------------------------- client: list

\* Text is a sequence of one-character strings.
UpperCaseLetters == <<"A", "M", "N", "S">>
LowerCaseLetters == <<"a", "m", "n", "s">>

\* String.prototype.toLowerCase on text.
toLowerCaseText(t) ==
    [i \in 1..Len(t) |->
        IF \E k \in 1..Len(UpperCaseLetters) : UpperCaseLetters[k] = t[i]
        THEN LowerCaseLetters[CHOOSE k \in 1..Len(UpperCaseLetters) : UpperCaseLetters[k] = t[i]]
        ELSE t[i]]

\* String.prototype.includes: t occurs in s as a substring.
includes(s, t) ==
    \E i \in 1..(Len(s) - Len(t) + 1) : SubSeq(s, i, i + Len(t) - 1) = t

\* startOfToday() in a browser at UTC offset off when the clock reads at.
startOfToday(at, off) == 24 * LocalDay(at, off) - off

\* The text predicate of filteredBookings.
MatchesText(b, searchTerm) ==
    LET term == toLowerCaseText(searchTerm)
    IN \/ includes(toLowerCaseText(b.guestName), term)
       \/ includes(toLowerCaseText(b.city), term)
       \/ includes(b.guestPhone, searchTerm)

\* The status-group predicate of filteredBookings (group # 'all').
MatchesGroup(b, group, today, off) ==
    IF group = "canceled" THEN b.status = "CANCELED"
    ELSE IF b.status = "CANCELED" THEN FALSE
    ELSE LET checkIn == parseISO(b.checkIn, off)
             checkOut == parseISO(b.checkOut, off)
         IN CASE group = "upcoming" -> checkIn >= today
              [] group = "active" -> checkIn < today /\ checkOut > today
              [] group = "past" -> checkOut <= today
              [] OTHER -> TRUE

\* A text filter that stops at the first match, as find() would.
TextFilterFirstMatch(bks, searchTerm) ==
    LET Keep(b) == MatchesText(b, searchTerm)
    IN IF SelectSeq(bks, Keep) = <<>> THEN <<>> ELSE <<Head(SelectSeq(bks, Keep))>>

\* bookings.filter(text predicate)
TextFilter(bks, searchTerm) ==
    LET Keep(b) == MatchesText(b, searchTerm) IN SelectSeq(bks, Keep)

\* if (listFilter !== 'all') filtered = filtered.filter(group predicate)
StatusFilter(bks, group, today, off) ==
    LET Keep(b) == MatchesGroup(b, group, today, off)
    IN IF group # "all" THEN SelectSeq(bks, Keep) ELSE bks

\* The position of a date string in the order localeCompare gives them.
StrRank(str) == 25 * str.d + str.h + 1

\* sort((a, b) => b.checkIn.localeCompare(a.checkIn)): check-in descending,
\* stable.
SortByCheckInDesc(bks) ==
    SortAsc(bks, [i \in 1..Len(bks) |-> 0 - StrRank(bks[i].checkIn)])

\* The useMemo body: filteredBookings.
filteredBookings(bks, searchTerm, group, today, off) ==
    SortByCheckInDesc(StatusFilter(TextFilter(bks, searchTerm), group, today, off))

\* ---------------------------------------------------------------- bounds

\* The most bookings the store holds.
MaxBookings == 2

\* Browser UTC offsets: UTC and Muscat.
TzOffsets == {0, 4}

\* Major versions of date-fns a build of the client may resolve.
DateFnsMajors == {2, 3}

\* The clock when the tenant starts: 2026-03-08T22:00Z; a day and a half
\* passes from one stored booking to the next.
FirstNow == 24 * 66 + 22
Elapse == 36

\* Rooms the report's room filter is set to.
RoomFilterArgs == {"ALL", "A1", "A2"}

\* Guests of the createBooking inputs.
Guests ==
    <<[guestName |-> <<"A", "l", "i">>, guestPhone |-> <<"9", "6", "8">>,
       city |-> <<"M", "u", "s", "c", "a", "t">>],
      [guestName |-> <<"S", "a", "l", "i", "m">>, guestPhone |-> <<"9", "1", "9">>,
       city |-> <<"S", "u", "r">>],
      [guestName |-> <<"M", "o", "n", "a">>, guestPhone |-> <<"9", "6", "9">>,
       city |-> <<"N", "i", "z", "w", "a">>]>>

\* What a createBooking input asks for, <<room, checkIn day, nights, guest,
\* status>>: A1 from 2026-02-25 for 3 and for 8 nights, A1 and A2 from
\* 2026-03-10 for 3 nights, the March stays also as CANCELED, a room the
\* tenant never had, and a stay of no nights.  The status is absent ("")
\* or given.
StayChoices ==
    {<<"A1", 55, 3, 1, "">>, <<"A1", 55, 8, 2, "">>,
     <<"A1", 68, 3, 3, "">>, <<"A1", 68, 3, 3, "CANCELED">>,
     <<"A2", 68, 3, 1, "">>, <<"A2", 68, 3, 1, "CANCELED">>,
     <<"X9", 68, 3, 2, "">>, <<"A1", 68, 0, 3, "">>}

\* createBooking inputs, with the form's date-only strings.
BookingInputs ==
    {[guestName |-> Guests[st[4]].guestName, guestPhone |-> Guests[st[4]].guestPhone,
      city |-> Guests[st[4]].city,
      room |-> st[1], checkIn |-> DateStr(st[2]), checkOut |-> DateStr(st[2] + st[3]),
      nightPrice |-> 50, deposit |-> 0, status |-> st[5]] : st \in StayChoices}

\* Dates the report's from / to inputs are set to: 2026-02-01, -03-10, -03-12.
ReportStartChoices == {DateStr(31), DateStr(68), DateStr(70)}
ReportEndChoices == {DateStr(68), DateStr(70)}

\* Values of the room filter's select: ALL or one of the listed rooms.
RoomFilterChoices(rs) == {"ALL"} \cup {rs[i] : i \in 1..Len(rs)}

\* Search terms typed into the list's search box.
SearchTerms == {<<>>, <<"a", "l", "i">>, <<"S", "u">>, <<"9", "6">>}

\* The list's status groups.
StatusGroups == {"all", "upcoming", "active", "past", "canceled"}

\* ---------------------------------------------------------------- actions

\* The report the client shows: useMemo recomputes reportData whenever one
\* of its dependencies changed.
Memo(bks, s, e, f, t, rs) ==
    reportData(bks, s, e, f, t, ClientRooms(rs), tz, dateFns)

\* The list the client shows: the memoised filteredBookings.
ListMemo(bks, searchTerm, group) ==
    filteredBookings(bks, searchTerm, group, startOfToday(now, tz), tz)

\* The tenants of the seed script: the administrator and the demo workspace.
SeedTenants ==
    [t \in {"admin", "demo"} |->
        IF t = "admin"
        THEN [subscriptionStatus |-> "active", isAdmin |-> TRUE, defaultTax |-> 5,
              rooms |-> <<"A1", "A2", "A3", "A4", "A5">>]
        ELSE [subscriptionStatus |-> "trial", isAdmin |-> FALSE, defaultTax |-> 10,
              rooms |-> <<"101", "102", "103", "201", "202">>]]

\* No call has been answered yet.
NoReply ==
    [op |-> "", caller |-> "", arg |-> {}, error |-> "", rows |-> <<>>,
     report |-> [error |-> ""], tenant |-> ""]

Init ==
    /\ tz \in TzOffsets
    /\ dateFns \in DateFnsMajors
    /\ now = FirstNow
    /\ rooms = DEFAULT_ROOMS
    /\ db = <<>>
    /\ bookings = <<>>
    /\ loadedMonths = {}
    /\ reportStartDate = MonthStartStr(formatMonth(FirstNow, tz))
    /\ reportEndDate = MonthEndStr(formatMonth(FirstNow, tz))
    /\ reportRoomFilter = "ALL"
    /\ reportType = "stay"
    /\ reportOut = reportData(<<>>, MonthStartStr(formatMonth(FirstNow, tz)),
                              MonthEndStr(formatMonth(FirstNow, tz)), "ALL", "stay",
                              DEFAULT_ROOMS, tz, dateFns)
    /\ listSearchTerm = <<>>
    /\ listFilter = "upcoming"
    /\ listOut = <<>>
    /\ defaultTax = 0
    /\ lastError = ""
    /\ calls = 0
    /\ online = TRUE
    /\ inflight = {}
    /\ tenants = SeedTenants
    /\ table = <<>>
    /\ reply = NoReply

\* The app has mounted once its initial load has run.
Mounted == loadedMonths # {}

\* A render threw: with no error boundary React unmounts the app.
Crashed == reportOut.error # ""

\* Mutation.createBooking(input) by an authenticated user of the tenant,
\* before the app mounts: a rejected input leaves the store as it is.
CreateBooking(input) ==
    /\ ~Mounted
    /\ Len(db) < MaxBookings
    /\ IF createBookingError(rooms, input, defaultTax) = ""
       THEN /\ db' = Append(db, NewBookingRow(input,
                                              calculateBookingDetails(input, defaultTax),
                                              Len(db) + 1, now))
            /\ now' = now + Elapse
       ELSE UNCHANGED <<db, now>>
    /\ UNCHANGED <<envVars, netVars, accountVars, writeVars, rooms, bookings, loadedMonths, reportControls,
                   reportOut, listVars>>

\* Mutation.removeRoom(roomId); the session's room list follows.
RemoveRoom(roomId) ==
    /\ HasRoom(rooms, roomId)
    /\ rooms' = removeRoom(rooms, roomId)
    /\ reportOut' = Memo(bookings, reportStartDate, reportEndDate, reportRoomFilter,
                         reportType, rooms')
    /\ UNCHANGED <<envVars, netVars, accountVars, writeVars, now, db, bookings, loadedMonths, reportControls, listVars>>

\* The mount effect: loadInitialMonths loads the months now-1 .. now+2.
Mount ==
    /\ ~Mounted
    /\ LET cur == formatMonth(now, tz)
           r == LoadMonths(bookings, loadedMonths, db,
                           <<cur - 1, cur, cur + 1, cur + 2>>, tz)
       IN /\ bookings' = r[1]
          /\ loadedMonths' = r[2]
          /\ reportOut' = Memo(r[1], reportStartDate, reportEndDate, reportRoomFilter,
                               reportType, rooms)
          /\ listOut' = ListMemo(r[1], listSearchTerm, listFilter)
    /\ UNCHANGED <<envVars, netVars, accountVars, writeVars, now, rooms, db, reportControls, listSearchTerm, listFilter>>

\* refreshMonthBookings(date in month m): a forced load of one month.
RefreshMonth(m) ==
    /\ Mounted /\ ~Crashed
    /\ LET r == loadMonthBookings(bookings, loadedMonths, db, m, TRUE, tz)
       IN /\ bookings' = r[1]
          /\ loadedMonths' = r[2]
          /\ reportOut' = Memo(r[1], reportStartDate, reportEndDate, reportRoomFilter,
                               reportType, rooms)
          /\ listOut' = ListMemo(r[1], listSearchTerm, listFilter)
    /\ UNCHANGED <<envVars, netVars, accountVars, writeVars, now, rooms, db, reportControls, listSearchTerm, listFilter>>

SetReportStartDate(v) ==
    /\ Mounted /\ ~Crashed
    /\ reportStartDate' = v
    /\ reportOut' = Memo(bookings, v, reportEndDate, reportRoomFilter, reportType, rooms)
    /\ UNCHANGED <<envVars, netVars, accountVars, writeVars, now, rooms, db, bookings, loadedMonths, reportEndDate,
                   reportRoomFilter, reportType, listVars>>

SetReportEndDate(v) ==
    /\ Mounted /\ ~Crashed
    /\ reportEndDate' = v
    /\ reportOut' = Memo(bookings, reportStartDate, v, reportRoomFilter, reportType, rooms)
    /\ UNCHANGED <<envVars, netVars, accountVars, writeVars, now, rooms, db, bookings, loadedMonths, reportStartDate,
                   reportRoomFilter, reportType, listVars>>

SetReportRoomFilter(v) ==
    /\ Mounted /\ ~Crashed
    /\ reportRoomFilter' = v
    /\ reportOut' = Memo(bookings, reportStartDate, reportEndDate, v, reportType, rooms)
    /\ UNCHANGED <<envVars, netVars, accountVars, writeVars, now, rooms, db, bookings, loadedMonths, reportStartDate,
                   reportEndDate, reportType, listVars>>

SetReportType(v) ==
    /\ Mounted /\ ~Crashed
    /\ reportType' = v
    /\ reportOut' = Memo(bookings, reportStartDate, reportEndDate, reportRoomFilter, v, rooms)
    /\ UNCHANGED <<envVars, netVars, accountVars, writeVars, now, rooms, db, bookings, loadedMonths, reportStartDate,
                   reportEndDate, reportRoomFilter, listVars>>

\* setListSearchTerm(v): filteredBookings is recomputed on a fresh array.
SetListSearchTerm(v) ==
    /\ Mounted /\ ~Crashed
    /\ listSearchTerm' = v
    /\ listOut' = ListMemo(bookings, v, listFilter)
    /\ UNCHANGED <<envVars, netVars, accountVars, writeVars, now, rooms, db, bookings, loadedMonths, reportControls,
                   reportOut, listFilter>>

\* setListFilter(v) with the sort applied to the bookings array itself
\* (no copy taken by a filter before it).
SetListFilterSortingInPlace(v) ==
    /\ Mounted /\ ~Crashed
    /\ listFilter' = v
    /\ bookings' = SortByCheckInDesc(bookings)
    /\ listOut' = ListMemo(bookings, listSearchTerm, v)
    /\ UNCHANGED <<envVars, netVars, accountVars, writeVars, now, rooms, db, loadedMonths, reportControls,
                   reportOut, listSearchTerm>>

\* setListFilter(v)
SetListFilter(v) ==
    /\ Mounted /\ ~Crashed
    /\ listFilter' = v
    /\ listOut' = ListMemo(bookings, listSearchTerm, v)
    /\ UNCHANGED <<envVars, netVars, accountVars, writeVars, now, rooms, db, bookings, loadedMonths, reportControls,
                   reportOut, listSearchTerm>>

\* The report engine: data written through the API, then a session that
\* works the report's controls.
Next ==
    \/ \E input \in BookingInputs : CreateBooking(input)
    \/ RemoveRoom("A2")
    \/ Mount
    \/ \E m \in 2..3 : RefreshMonth(m)
    \/ \E v \in ReportStartChoices : SetReportStartDate(v)
    \/ \E v \in ReportEndChoices : SetReportEndDate(v)
    \/ \E v \in RoomFilterChoices(ClientRooms(rooms)) \cap RoomFilterArgs : SetReportRoomFilter(v)
    \/ \E v \in {"stay", "created"} : SetReportType(v)

Spec == Init /\ [][Next]_vars

\* The list view: data written through the API, then a session that works
\* the list's controls and the report's basis.
NextList ==
    \/ \E input \in BookingInputs : CreateBooking(input)
    \/ Mount
    \/ \E v \in SearchTerms : SetListSearchTerm(v)
    \/ \E v \in StatusGroups : SetListFilter(v)
    \/ \E v \in {"stay", "created"} : SetReportType(v)

SpecList == Init /\ [][NextList]_vars

\* ----------------------------------------------------------- properties

\* The calendar day a date string names.
DayOf(str) == str.d

\* b occupies room r on day d: its room is r, it is not canceled and
\* checkIn <= d < checkOut as calendar days.
Occupies(b, r, d) ==
    b.room = r /\ b.status # "CANCELED" /\ DayOf(b.checkIn) <= d /\ d < DayOf(b.checkOut)

\* The elements of a sequence.
Range(seq) == {seq[i] : i \in 1..Len(seq)}

\* The days from the eve of b's check-in to its check-out day.
DaysAround(b) == (DayOf(b.checkIn) - 1)..DayOf(b.checkOut)

\* The calendar cell of (r, d) shows b exactly when b occupies (r, d).
C1_CalendarCell ==
    \A b \in Range(bookings) : \A r \in Range(ClientRooms(rooms)) : \A d \in DaysAround(b) :
        (b \in Range(cellBookings(bookings, r, DateStr(d), tz))) <=> Occupies(b, r, d)

\* The report's occupied-day loop counts day d for a non-canceled booking
\* of room r exactly when the booking occupies (r, d).
C1_ReportLoop ==
    \A b \in Range(bookings) : \A r \in Range(ClientRooms(rooms)) : \A d \in DaysAround(b) :
        (b.room = r /\ b.status # "CANCELED" /\ LoopCovers(b, DateStr(d)))
            <=> Occupies(b, r, d)

\* C1: half-open occupancy.  In every state, for every booking the client
\* holds, every room and every day from the eve of its check-in to its
\* check-out day, the calendar cell and the report's occupied-day loop take
\* the booking as occupying the room on that day iff its room matches, it is
\* not CANCELED and checkIn <= day < checkOut.
C1_HalfOpenOccupancy == C1_CalendarCell /\ C1_ReportLoop

\* The collection with every CANCELED booking removed.
NonCanceled(bks) == LET Live(b) == b.status # "CANCELED" IN SelectSeq(bks, Live)

\* The report window holds the whole stay of b.
WindowHoldsStay(b) ==
    /\ DayOf(reportStartDate) <= DayOf(b.checkIn)
    /\ DayOf(b.checkOut) <= DayOf(reportEndDate) + 1

\* C2: cancellation exclusion in the client report.  In every state the
\* report shown (per-room totals and rates, overall totals, every month's
\* revenue and fill rate) equals the report computed from the collection
\* with all CANCELED bookings removed, whatever the window, room filter and
\* basis mode.
C2_CancellationExclusion ==
    reportOut = Memo(NonCanceled(bookings), reportStartDate, reportEndDate,
                     reportRoomFilter, reportType, rooms)

\* A CANCELED booking whose stay lies in the window is held next to a
\* booking the report counts.
C2_Witness ==
    /\ ~Crashed
    /\ reportOut.bookingCount >= 1
    /\ \E b \in Range(bookings) :
          b.status = "CANCELED" /\ WindowHoldsStay(b)
          /\ (reportRoomFilter = "ALL" \/ reportRoomFilter = b.room)

\* The nights of the stay from day ci to day co that fall in month m.
NightsInMonth(ci, co, m) == Cardinality({d \in ci..(co - 1) : MonthOfDay(d) = m})

\* The stay from day ci to day co has nights in more than one month.
SpansMonths(ci, co) == MonthOfDay(ci) # MonthOfDay(co - 1)

\* What a stored booking adds to occupiedNights of getOccupancyReport for
\* its room and month m.
ServerContribution(b, m) ==
    IF b \in Range(OccupancyRows(db, b.room, m)) THEN ServerNights(b, m) ELSE 0

\* What a booking the client holds adds to month m's occupancy in
\* monthlyStats.
ClientContribution(b, m) ==
    IF b \in Range(MonthBookings(bookings, m, reportRoomFilter))
    THEN MonthNights(b, m, tz) ELSE 0

\* The server's share of C3: every stored non-canceled stay that spans a
\* month boundary gives each month the nights it has in that month.
C3_Server ==
    \A b \in Range(db) :
        (b.status # "canceled" /\ SpansMonths(b.checkIn \div 24, b.checkOut \div 24))
        => \A m \in Months :
              ServerContribution(b, m) = NightsInMonth(b.checkIn \div 24, b.checkOut \div 24, m)

\* The client's share of C3, for the stays inside the report window.
C3_Client ==
    \A b \in Range(bookings) :
        (b.status # "CANCELED" /\ SpansMonths(DayOf(b.checkIn), DayOf(b.checkOut))
         /\ WindowHoldsStay(b) /\ reportRoomFilter \in {"ALL", b.room})
        => \A m \in Months :
              ClientContribution(b, m) = NightsInMonth(DayOf(b.checkIn), DayOf(b.checkOut), m)

\* C3: month-boundary clamping.  In every state, a non-canceled booking
\* whose stay spans a month boundary contributes to each calendar month's
\* bucket exactly the nights of the stay that fall in that month (so the
\* contributions add up to its nights), in the server's getOccupancyReport
\* and in the client's monthlyStats.
C3_MonthBoundaryClamping == C3_Server /\ C3_Client

\* The bookings of room r the client holds.
BookingsOfRoom(r) == LET InRoom(b) == b.room = r IN SelectSeq(bookings, InRoom)

\* Room r's only booking is not canceled and covers the report window
\* exactly: it checks in on reportStart and out on the day after reportEnd.
CoversWindowExactly(r) ==
    /\ Len(BookingsOfRoom(r)) = 1
    /\ BookingsOfRoom(r)[1].status # "CANCELED"
    /\ DayOf(reportStartDate) <= DayOf(reportEndDate)
    /\ DayOf(BookingsOfRoom(r)[1].checkIn) = DayOf(reportStartDate)
    /\ DayOf(BookingsOfRoom(r)[1].checkOut) = DayOf(reportEndDate) + 1
    /\ reportRoomFilter \in {"ALL", r}

\* Full occupancy under one basis mode.
FullOccupancyIn(type) ==
    (~Crashed /\ reportType = type)
    => \A i \in 1..Len(ClientRooms(rooms)) :
          CoversWindowExactly(ClientRooms(rooms)[i])
          => reportOut.roomStats[i].occupancyRate = Frac(100, 1)

C4_StayBasis == FullOccupancyIn("stay")
C4_CreatedBasis == FullOccupancyIn("created")

\* C4: full occupancy.  In every state with reportStart <= reportEnd, under
\* either basis mode, a room whose only booking is non-canceled and covers
\* the report window exactly has occupancyRate 100 in the per-room report.
C4_FullOccupancy == C4_StayBasis /\ C4_CreatedBasis

\* The bookings of room r the report is to count under basis type: not
\* canceled, matching the room filter, basis date (checkIn, or the date part
\* of createdAt) in [reportStart, reportEnd].
CountedOfRoom(r, type) ==
    LET basis(b) == IF type = "stay" THEN DayOf(b.checkIn) ELSE DayOf(b.createdAt)
        Counted(b) == /\ b.room = r
                      /\ b.status # "CANCELED"
                      /\ reportRoomFilter \in {"ALL", b.room}
                      /\ DayOf(reportStartDate) <= basis(b)
                      /\ basis(b) <= DayOf(reportEndDate)
    IN SelectSeq(bookings, Counted)

\* Revenue additivity under one basis mode.
RevenueAdditiveIn(type) ==
    (~Crashed /\ reportType = type)
    => \A i \in 1..Len(ClientRooms(rooms)) :
          LET counted == CountedOfRoom(ClientRooms(rooms)[i], type)
          IN /\ reportOut.roomStats[i].totalRevenue
                  = Sum([k \in 1..Len(counted) |-> counted[k].totalPrice])
             /\ reportOut.roomStats[i].totalNights
                  = Sum([k \in 1..Len(counted) |-> counted[k].nights])

C5_StayBasis == RevenueAdditiveIn("stay")
C5_CreatedBasis == RevenueAdditiveIn("created")

\* C5: revenue additivity.  In every state, each room's totalRevenue and
\* totalNights in the per-room report are the sums of totalPrice and of
\* nights over exactly the room's non-canceled bookings that match the room
\* filter and whose basis date lies in [reportStart, reportEnd].
C5_RevenueAdditivity == C5_StayBasis /\ C5_CreatedBasis

\* The client holds the tenant's whole stored collection.
SameCollection == Mounted /\ Range(bookings) = Range(MapNormalize(db))

\* getOccupancyReport for month m under the report's room filter.
ServerReport(m) ==
    getOccupancyReport(db, IF reportRoomFilter = "ALL" THEN "" ELSE reportRoomFilter, m)

\* Month m's occupied nights and possible nights in the client's monthlyStats.
ClientOccupiedNights(m) ==
    MonthOccupancy(MonthBookings(bookings, m, reportRoomFilter), m, tz)
ClientPossibleNights(m) ==
    MonthPossibleNights(m, tz) * MonthTotalRooms(reportRoomFilter, ClientRooms(rooms))

\* The months bookings are made for.
BookedMonths == 2..3

C6_OccupiedNights ==
    SameCollection => \A m \in BookedMonths :
        ServerReport(m).occupiedNights = ClientOccupiedNights(m)

C6_PossibleNights ==
    SameCollection => \A m \in BookedMonths :
        ServerReport(m).totalNights = ClientPossibleNights(m)

\* The rates agree once the client's is rounded as the server's is.
C6_Rate ==
    SameCollection => \A m \in BookedMonths :
        ServerReport(m).occupancyRate
            = Round2(ClientOccupiedNights(m), ClientPossibleNights(m))

\* C6: client/server agreement.  In every state where the client holds the
\* tenant's whole collection, for each month and the report's room filter,
\* getOccupancyReport and the client's monthlyStats entry have the same
\* occupied nights, the same total possible nights and the same rate.
C6_ClientServerAgreement == C6_OccupiedNights /\ C6_PossibleNights /\ C6_Rate

\* The report shown is the one a fresh computation gives.
ReportIsFresh ==
    reportOut = Memo(bookings, reportStartDate, reportEndDate, reportRoomFilter,
                     reportType, rooms)

\* A step that works the list's controls.
ListStep == listSearchTerm' # listSearchTerm \/ listFilter' # listFilter

\* A step that leaves every input of reportData as it is.
ReportInputsKept ==
    /\ bookings' = bookings
    /\ rooms' = rooms
    /\ reportStartDate' = reportStartDate
    /\ reportEndDate' = reportEndDate
    /\ reportRoomFilter' = reportRoomFilter
    /\ reportType' = reportType

ListToday == startOfToday(now, tz)

\* Both predicates of the list at once.
MatchesBoth(b) ==
    /\ MatchesText(b, listSearchTerm)
    /\ (listFilter = "all" \/ MatchesGroup(b, listFilter, ListToday, tz))

\* C8: filter composition.  In every state the list shown (text filter,
\* then status group, then the check-in-descending sort) is the list that
\* filtering by status group first and by text second gives, and the list
\* that one pass with both predicates gives: same elements, same order.
C8_FilterComposition ==
    /\ listOut = SortByCheckInDesc(
                    TextFilter(StatusFilter(bookings, listFilter, ListToday, tz),
                               listSearchTerm))
    /\ listOut = SortByCheckInDesc(SelectSeq(bookings, MatchesBoth))

\* Two bookings are held; the text alone keeps one, the status group alone
\* keeps one, and the list shows the one both keep.
C8_Witness ==
    /\ Len(bookings) = 2
    /\ listFilter # "all"
    /\ Len(TextFilter(bookings, listSearchTerm)) = 1
    /\ Len(StatusFilter(bookings, listFilter, ListToday, tz)) = 1
    /\ Len(listOut) = 1

\* The report window is invalid: reportEnd < reportStart.
InvalidWindow == DayOf(reportEndDate) < DayOf(reportStartDate)

\* The rollup of an invalid window does not raise.
C9_NoRaise == InvalidWindow => ~Crashed

\* The rollup of an invalid window has no month entries.
C9_NoMonths == (InvalidWindow /\ ~Crashed) => reportOut.monthlyStats = <<>>

\* The rollup of an invalid window has zero totals and rates.
C9_ZeroTotals ==
    (InvalidWindow /\ ~Crashed)
    => /\ reportOut.totalRevenue = 0
       /\ reportOut.totalNights = 0
       /\ reportOut.bookingCount = 0
       /\ \A i \in 1..Len(reportOut.roomStats) :
             reportOut.roomStats[i].occupancyRate = Frac(0, 1)

\* C9: invalid window.  In every state with reportEnd < reportStart the
\* client rollup has not raised and is empty: no month entries, zero
\* totalRevenue, totalNights and bookingCount, occupancyRate 0 for every room.
C9_InvalidWindow == C9_NoRaise /\ C9_NoMonths /\ C9_ZeroTotals

\* The room filter names no room of the tenant.
UnknownRoomFilter ==
    reportRoomFilter # "ALL" /\ ~HasRoom(ClientRooms(rooms), reportRoomFilter)

\* The client rollup under an unknown room filter is empty.
C10_Client ==
    (UnknownRoomFilter /\ ~Crashed)
    => /\ reportOut.bookingCount = 0
       /\ reportOut.totalRevenue = 0
       /\ reportOut.totalNights = 0
       /\ \A i \in 1..Len(reportOut.monthlyStats) :
             /\ reportOut.monthlyStats[i].revenue = 0
             /\ reportOut.monthlyStats[i].fillRate = Frac(0, 1)

\* Room ids a report may be asked for.
RoomArgs == {"A1", "A2", "X9"}

\* getOccupancyReport for a room the tenant does not have finds nothing.
C10_Server ==
    \A r \in RoomArgs : \A m \in BookedMonths :
        ~HasRoom(rooms, r)
        => /\ getOccupancyReport(db, r, m).error = ""
           /\ getOccupancyReport(db, r, m).occupiedNights = 0

\* C10: unknown room filter.  In every state, a room filter that is not in
\* the tenant's room list gives an empty report and no error: the client
\* rollup selects no booking and has zero totals and zero revenue and fill
\* rate in every month, and getOccupancyReport returns occupiedNights 0.
C10_UnknownRoomFilter == C10_Client /\ C10_Server


\* ------------------------------------------------ per-room occupancy rate

\* The occupancyRate reportData gives room r under basis type, for the
\* loaded bookings and the window and room filter of the report controls.
RoomRate(type, r) ==
    RoomStat(ReportFiltered(bookings, reportStartDate, reportEndDate,
                            reportRoomFilter, type),
             r, reportStartDate, reportEndDate, tz).occupancyRate

\* Room r has no booking, or only CANCELED ones.
NoLiveBooking(r) ==
    \A i \in 1..Len(bookings) :
        bookings[i].room = r => bookings[i].status = "CANCELED"

\* The rooms a report row is computed for.
ReportRooms == Range(ClientRooms(rooms))

\* C11: occupancy rate boundary.  For a room with no bookings, or only
\* CANCELED ones, the per-room occupancyRate is exactly 0 in every report
\* window, and it is 0 for every room when the window has no days; the
\* report shown carries these rates.
C11_OccupancyRateBoundary ==
    /\ \A type \in {"stay", "created"} : \A r \in ReportRooms :
          (NoLiveBooking(r) \/ DaysInReport(reportStartDate, reportEndDate, tz) <= 0)
          => RoomRate(type, r) = Frac(0, 1)
    /\ ~Crashed =>
          \A i \in 1..Len(reportOut.roomStats) :
              (\/ NoLiveBooking(reportOut.roomStats[i].roomId)
               \/ DaysInReport(reportStartDate, reportEndDate, tz) <= 0)
              => reportOut.roomStats[i].occupancyRate = Frac(0, 1)

\* A room whose only booking is CANCELED and stays inside a report window
\* that has days, while another room's rate is not 0.
C11_Witness ==
    /\ ~Crashed
    /\ DaysInReport(reportStartDate, reportEndDate, tz) > 0
    /\ \E r \in ReportRooms :
          /\ NoLiveBooking(r)
          /\ \E i \in 1..Len(bookings) :
                /\ bookings[i].room = r
                /\ DayOf(reportStartDate) <= DayOf(bookings[i].checkIn)
                /\ DayOf(bookings[i].checkIn) <= DayOf(reportEndDate)
    /\ \E i \in 1..Len(reportOut.roomStats) :
          reportOut.roomStats[i].occupancyRate # Frac(0, 1)

\* C12: per-room occupancy is independent of the basis mode.  For the same
\* bookings, window and room filter, every room's occupancyRate under basis
\* 'stay' equals the one under basis 'created'.
C12_BasisIndependence ==
    \A r \in ReportRooms : RoomRate("stay", r) = RoomRate("created", r)


\* --------------------------------------------------------- fill rate range

\* Month-long stays of March 2026, <<room, checkIn day, nights, guest,
\* status>>: A1 from 2026-03-01 to 2026-03-31 for two guests, A1 from
\* 2026-03-04 for 20 nights, and A2 for the month.
LongStayChoices ==
    {<<"A1", 59, 30, 1, "">>, <<"A1", 59, 30, 2, "">>,
     <<"A1", 62, 20, 3, "">>, <<"A2", 59, 30, 3, "">>}

\* The createBooking input of a stay choice.
StayInput(st) ==
    [guestName |-> Guests[st[4]].guestName, guestPhone |-> Guests[st[4]].guestPhone,
     city |-> Guests[st[4]].city,
     room |-> st[1], checkIn |-> DateStr(st[2]), checkOut |-> DateStr(st[2] + st[3]),
     nightPrice |-> 50, deposit |-> 0, status |-> st[5]]

LongStayInputs == {StayInput(st) : st \in LongStayChoices}

\* Month-long stays are written, the app mounts, the room filter is set.
NextFill ==
    \/ \E input \in LongStayInputs : CreateBooking(input)
    \/ Mount
    \/ \E v \in RoomFilterArgs : SetReportRoomFilter(v)

SpecFill == Init /\ [][NextFill]_vars

\* A rate, as a fraction, lies in 0 .. 100.
InPercentRange(f) == 0 <= f.num /\ f.num <= 100 * f.den

\* Every month's fillRate of the report shown lies in 0 .. 100.
C13_ClientFillRate ==
    ~Crashed =>
        \A i \in 1..Len(reportOut.monthlyStats) :
            InPercentRange(reportOut.monthlyStats[i].fillRate)

\* The server's occupancyRate lies in 0 .. 100, for every room argument
\* and month.
C13_ServerOccupancyRate ==
    \A room \in {"", "A1", "A2"} : \A m \in BookedMonths :
        InPercentRange(getOccupancyReport(db, room, m).occupancyRate)

\* C13: fill rate range.  For every booking collection the create
\* operations produce, double-booked stays on one room included, every
\* month's fillRate in the client monthlyStats and the server's
\* occupancyRate lie in the range 0 to 100.
C13_FillRateRange == C13_ClientFillRate /\ C13_ServerOccupancyRate


\* ------------------------------------------------------ server: write path

\* A field of a Partial<BookingInput> is given.
Has(input, f) == f \in DOMAIN input

\* input.f || fallback for a number field: 0 is taken as not given.
NumberOr(input, f, fallback) ==
    IF Has(input, f) /\ input[f] # 0 THEN input[f] ELSE fallback

\* updateBooking's test input.checkIn || input.checkOut || input.nightPrice
\* || input.deposit.
Recalculates(input) ==
    \/ Has(input, "checkIn")
    \/ Has(input, "checkOut")
    \/ (Has(input, "nightPrice") /\ input.nightPrice # 0)
    \/ (Has(input, "deposit") /\ input.deposit # 0)

\* newInput of updateBooking: the given fields over the stored ones.
UpdateNewInput(booking, input) ==
    [checkIn |-> IF Has(input, "checkIn") THEN input.checkIn
                 ELSE toISOString(booking.checkIn),
     checkOut |-> IF Has(input, "checkOut") THEN input.checkOut
                  ELSE toISOString(booking.checkOut),
     nightPrice |-> NumberOr(input, "nightPrice", booking.nightPrice),
     deposit |-> NumberOr(input, "deposit", booking.deposit)]

\* Mutation.updateBooking on a stored booking: the error it throws.
updateBookingError(booking, input, taxRate) ==
    IF Recalculates(input)
    THEN calculateBookingDetails(UpdateNewInput(booking, input), taxRate).error
    ELSE ""

\* updateData as prisma.booking.update stores it: the given fields as
\* given (a DateTime string becomes its instant), the recalculated details
\* over them, the status lower-cased.
updateBookingRow(booking, input, taxRate) ==
    LET details == calculateBookingDetails(UpdateNewInput(booking, input), taxRate)
        Given(f) ==
            CASE f \in {"checkIn", "checkOut"} -> NewDate(input[f])
              [] f = "status" -> toLowerCase(input[f])
              [] OTHER -> input[f]
        Recalculated(f) ==
            Recalculates(input) /\ f \in {"nights", "totalPrice", "tax", "remaining"}
    IN [f \in DOMAIN booking |->
           IF Recalculated(f) THEN details[f]
           ELSE IF Has(input, f) THEN Given(f)
           ELSE booking[f]]

\* The store after prisma.booking.update of the booking with this id.
UpdateStore(store, id, row) ==
    [i \in 1..Len(store) |-> IF store[i].id = id THEN row ELSE store[i]]

\* The booking of the store with this id; findFirst found one.
HasBooking(store, id) == \E i \in 1..Len(store) : store[i].id = id
BookingById(store, id) == store[CHOOSE i \in 1..Len(store) : store[i].id = id]

\* What bulkImportBookings' map callback throws for one booking.
bulkImportItemError(rs, b, taxRate) ==
    IF ~HasRoom(rs, b.room) THEN "Invalid room: " \o b.room
    ELSE calculateBookingDetails(b, taxRate).error

\* Mutation.bulkImportBookings: the error it throws, that of the first
\* booking the map callback rejects.  The callback throws before
\* Promise.all takes the create promises, which prisma runs only once they
\* are awaited, so no booking is stored then.
bulkImportBookingsError(rs, inputs, taxRate) ==
    IF Len(inputs) = 0 THEN "No bookings to import"
    ELSE IF Len(inputs) > 1000 THEN "Cannot import more than 1000 bookings at once"
    ELSE IF \E i \in 1..Len(inputs) : bulkImportItemError(rs, inputs[i], taxRate) # ""
         THEN LET first == CHOOSE i \in 1..Len(inputs) :
                     /\ bulkImportItemError(rs, inputs[i], taxRate) # ""
                     /\ \A j \in 1..(i - 1) :
                           bulkImportItemError(rs, inputs[j], taxRate) = ""
              IN bulkImportItemError(rs, inputs[first], taxRate)
         ELSE ""

\* The rows a bulk import that passed its validations stores.
bulkImportRows(store, inputs, taxRate, at) ==
    [i \in 1..Len(inputs) |->
        NewBookingRow(inputs[i], calculateBookingDetails(inputs[i], taxRate),
                      Len(store) + i, at)]

\* The name of a room: the rooms of the registration are named by their
\* ids, the room addRoom made is B1.
RoomName(id) == IF HasRoom(DEFAULT_ROOMS, id) THEN id ELSE "B1"

\* The id `R${Date.now()}` addRoom gives the one room it adds.
NewRoomId == "R1"

\* Mutation.addRoom(name): the error it throws.
addRoomError(rs, name) ==
    IF \E i \in 1..Len(rs) : RoomName(rs[i]) = name
    THEN "Room name already exists" ELSE ""

\* Mutation.updateTenantSettings({defaultTax}): the error it throws.
updateTenantSettingsError(tax) ==
    IF tax < 0 \/ tax > 100 THEN "Tax must be between 0 and 100" ELSE ""

\* Query.getRevenueReport(year 2026, month m), for a month that is given:
\* the bookings created in the month, whatever their status.
\* totalOutstanding is in hundredths, as remaining is.
getRevenueReport(store, m) ==
    LET startDate == 24 * MonthStart(m)
        endDate == 24 * MonthLast(m)
        Created(b) == startDate <= b.createdAt /\ b.createdAt <= endDate
        rows == SelectSeq(store, Created)
        totalRevenue == Sum([i \in 1..Len(rows) |-> rows[i].totalPrice])
        bookingCount == Len(rows)
    IN [month |-> m,
        totalRevenue |-> totalRevenue,
        totalDeposits |-> Sum([i \in 1..Len(rows) |-> rows[i].deposit]),
        totalOutstanding |-> Sum([i \in 1..Len(rows) |-> rows[i].remaining]),
        bookingCount |-> bookingCount,
        averageBookingValue |->
            IF bookingCount > 0
            THEN Frac((200 * totalRevenue + bookingCount) \div (2 * bookingCount), 100)
            ELSE Frac(0, 1)]

\* ----------------------------------------------------- write-path actions

\* The fields input BookingInput declares non-null, and enum BookingStatus.
RequiredFields == {"guestName", "room", "checkIn", "checkOut", "nightPrice", "deposit"}
BookingStatus == {"UPCOMING", "ACTIVE", "COMPLETED", "CANCELED", "NO_SHOW"}

\* The error GraphQL answers a variable of type BookingInput! with, before
\* any resolver runs: a required field is missing or the status is no
\* value of the enum.
bookingInputError(input) ==
    IF /\ RequiredFields \subseteq DOMAIN input
       /\ (Has(input, "status") => input.status \in BookingStatus)
    THEN "" ELSE "Variable $input got invalid value"

\* The most write calls a behaviour of the write path makes.
MaxCalls == 3

\* createBooking and bulkImportBookings inputs, <<room, checkIn day, nights,
\* guest, status>>: A1 from 2026-03-10 for 3 nights, A1 from 2026-03-12 for
\* 3 nights (two nights shared with the first), A2 CANCELED, the room
\* addRoom makes, a room the tenant never had, and a stay of no nights.
WriteChoices ==
    {<<"A1", 68, 3, 1, "">>, <<"A1", 70, 3, 2, "">>,
     <<"A2", 68, 3, 3, "CANCELED">>, <<"R1", 68, 3, 2, "">>,
     <<"X9", 68, 3, 2, "">>, <<"A1", 68, 0, 3, "">>}

\* The inputs of the write path pay a deposit of 20.
WriteInput(st) == [StayInput(st) EXCEPT !.deposit = 20]

WriteInputs == {WriteInput(st) : st \in WriteChoices}

\* The lists bulkImportBookings is called with: two good bookings, a good
\* one before a stay of no nights, a good one before an unknown room, and
\* an empty list.
BulkChoices ==
    {<<<<"A1", 68, 3, 1, "">>, <<"A2", 68, 3, 3, "CANCELED">>>>,
     <<<<"A1", 68, 3, 1, "">>, <<"A1", 68, 0, 3, "">>>>,
     <<<<"A2", 68, 3, 3, "CANCELED">>, <<"X9", 68, 3, 2, "">>>>,
     <<>>}

BulkInputs == {[i \in 1..Len(l) |-> WriteInput(l[i])] : l \in BulkChoices}

\* The input the list's edit of the first stay would send: all of
\* BookingInput's required fields, the dates as ISO DateTime strings.
UpdateBase ==
    [guestName |-> Guests[1].guestName, guestPhone |-> Guests[1].guestPhone,
     city |-> Guests[1].city, room |-> "A1",
     checkIn |-> toISOString(24 * 68), checkOut |-> toISOString(24 * 71),
     nightPrice |-> 50, deposit |-> 20]

\* updateBooking inputs: the base with a night price of 0 and of 80, a
\* deposit of 0, a check-out on 2026-03-10 and on 2026-03-12, a check-in
\* on 2026-03-11, the status CANCELED, another room of the tenant, a room
\* the tenant never had; and the status alone, which is no BookingInput.
UpdateInputs ==
    {[UpdateBase EXCEPT !.nightPrice = 0], [UpdateBase EXCEPT !.nightPrice = 80],
     [UpdateBase EXCEPT !.deposit = 0],
     [UpdateBase EXCEPT !.checkOut = toISOString(24 * 68)],
     [UpdateBase EXCEPT !.checkOut = toISOString(24 * 70)],
     [UpdateBase EXCEPT !.checkIn = toISOString(24 * 69)],
     UpdateBase @@ [status |-> "CANCELED"],
     [UpdateBase EXCEPT !.room = "A2"], [UpdateBase EXCEPT !.room = "X9"],
     [status |-> "CANCELED"]}

\* Names addRoom is called with, tax rates updateTenantSettings is called
\* with, and rooms removeRoom is called with.
AddRoomNames == {"A1", "B1"}
TaxInputs == {0, 5, 150}
RemoveRoomArgs == {"A2", "X9"}

\* A write call is answered: with this error, or with none.
Answer(err) ==
    /\ calls < MaxCalls
    /\ lastError' = err
    /\ calls' = calls + 1

\* A call of Mutation.createBooking(input).
CallCreateBooking(input) ==
    /\ Len(db) < MaxBookings
    /\ Answer(createBookingError(rooms, input, defaultTax))
    /\ IF createBookingError(rooms, input, defaultTax) = ""
       THEN /\ db' = Append(db, NewBookingRow(input,
                                              calculateBookingDetails(input, defaultTax),
                                              Len(db) + 1, now))
            /\ now' = now + Elapse
       ELSE UNCHANGED <<db, now>>
    /\ UNCHANGED <<envVars, netVars, accountVars, rooms, defaultTax, clientVars>>

\* A call of Mutation.bulkImportBookings(bookings).
CallBulkImportBookings(inputs) ==
    /\ Len(db) + Len(inputs) <= MaxBookings
    /\ Answer(bulkImportBookingsError(rooms, inputs, defaultTax))
    /\ IF bulkImportBookingsError(rooms, inputs, defaultTax) = ""
       THEN /\ db' = db \o bulkImportRows(db, inputs, defaultTax, now)
            /\ now' = now + Elapse * Len(inputs)
       ELSE UNCHANGED <<db, now>>
    /\ UNCHANGED <<envVars, netVars, accountVars, rooms, defaultTax, clientVars>>

\* A call of Mutation.updateBooking(id, input): the variables are
\* coerced to the schema's types before the resolver runs.
CallUpdateBooking(id, input) ==
    /\ IF bookingInputError(input) # ""
       THEN /\ Answer(bookingInputError(input))
            /\ UNCHANGED db
       ELSE IF ~HasBooking(db, id)
       THEN /\ Answer("Booking not found")
            /\ UNCHANGED db
       ELSE LET booking == BookingById(db, id)
                err == updateBookingError(booking, input, defaultTax)
            IN /\ Answer(err)
               /\ IF err = ""
                  THEN db' = UpdateStore(db, id,
                                         updateBookingRow(booking, input, defaultTax))
                  ELSE UNCHANGED db
    /\ UNCHANGED <<envVars, netVars, accountVars, now, rooms, defaultTax, clientVars>>

\* A call of Mutation.addRoom(name).
CallAddRoom(name) ==
    /\ Answer(addRoomError(rooms, name))
    /\ IF addRoomError(rooms, name) = ""
       THEN rooms' = Append(rooms, NewRoomId)
       ELSE UNCHANGED rooms
    /\ UNCHANGED <<envVars, netVars, accountVars, now, db, defaultTax, clientVars>>

\* A call of Mutation.removeRoom(roomId).
CallRemoveRoom(roomId) ==
    /\ IF HasRoom(rooms, roomId)
       THEN /\ Answer("")
            /\ rooms' = removeRoom(rooms, roomId)
       ELSE /\ Answer("Room not found")
            /\ UNCHANGED rooms
    /\ UNCHANGED <<envVars, netVars, accountVars, now, db, defaultTax, clientVars>>

\* A call of Mutation.updateTenantSettings({defaultTax: tax}).
CallUpdateTenantSettings(tax) ==
    /\ Answer(updateTenantSettingsError(tax))
    /\ IF updateTenantSettingsError(tax) = ""
       THEN defaultTax' = tax
       ELSE UNCHANGED defaultTax
    /\ UNCHANGED <<envVars, netVars, accountVars, now, rooms, db, clientVars>>

\* The write calls of an authenticated user of the tenant.
NextWrite ==
    \/ \E input \in WriteInputs : CallCreateBooking(input)
    \/ \E inputs \in BulkInputs : CallBulkImportBookings(inputs)
    \/ \E id \in 1..MaxBookings : \E input \in UpdateInputs : CallUpdateBooking(id, input)
    \/ \E name \in AddRoomNames : CallAddRoom(name)
    \/ \E roomId \in RemoveRoomArgs : CallRemoveRoom(roomId)
    \/ \E tax \in TaxInputs : CallUpdateTenantSettings(tax)

SpecWrite == Init /\ [][NextWrite]_vars


\* ------------------------------------------------- write-path properties

\* A stored booking's derived stay fields agree with its own fields.
FreshStay(b) ==
    /\ b.nights = differenceInCalendarDays(b.checkOut, b.checkIn)
    /\ b.totalPrice = b.nights * b.nightPrice

\* C14: derived stay fields are never stale.  After any sequence of
\* createBooking, bulkImportBookings and updateBooking calls every stored
\* booking has nights = the calendar days from checkIn to checkOut and
\* totalPrice = nights * nightPrice.
C14_DerivedStayFields == \A i \in 1..Len(db) : FreshStay(db[i])

\* A stored booking's remaining is totalPrice - deposit (in hundredths).
PlainRemaining(b) == b.remaining = 100 * (b.totalPrice - b.deposit)

\* C15: remaining balance.  After any sequence of createBooking and
\* updateBooking calls every stored booking has remaining = totalPrice -
\* deposit, whatever the tenant's tax setting.
C15_RemainingBalance == \A i \in 1..Len(db) : PlainRemaining(db[i])

\* The error of an interval that does not end after it starts.
IntervalError == "Check-out must be after check-in"

\* The interval an input asks for does not end strictly after it starts.
BadInterval(input) == NewDate(input.checkOut) <= NewDate(input.checkIn)

\* Every stored booking ends strictly after it starts.
C16_StoredIntervals ==
    \A i \in 1..Len(db) : db[i].checkOut > db[i].checkIn /\ db[i].nights >= 1

\* In the current state each write whose resulting interval is bad fails:
\* createBooking and updateBooking with the interval error, and
\* bulkImportBookings with the error of its first rejected booking.
C16_BadIntervalFails ==
    /\ \A input \in WriteInputs :
          (BadInterval(input) /\ HasRoom(rooms, input.room))
          => createBookingError(rooms, input, defaultTax) = IntervalError
    /\ \A inputs \in BulkInputs :
          (\E k \in 1..Len(inputs) : BadInterval(inputs[k]))
          => bulkImportBookingsError(rooms, inputs, defaultTax) # ""
    /\ \A i \in 1..Len(db) : \A input \in UpdateInputs :
          BadInterval(UpdateNewInput(db[i], input))
          => updateBookingError(db[i], input, defaultTax) = IntervalError

\* A call answered with the interval error stored nothing.
C16_RejectionKeepsStore ==
    (calls' # calls /\ lastError' = IntervalError) => db' = db

\* C16: invalid intervals are rejected at the write boundary.  A
\* createBooking, bulkImportBookings or updateBooking whose resulting
\* checkOut is not strictly after checkIn fails with 'Check-out must be
\* after check-in' and leaves the stored bookings unchanged; in every
\* reachable state every stored booking has checkOut > checkIn and
\* nights >= 1.
C16_InvalidIntervalRejected ==
    /\ [](C16_StoredIntervals /\ C16_BadIntervalFails)
    /\ [][C16_RejectionKeepsStore]_vars

\* An updateBooking of a stored booking was answered with the interval
\* error: the store is full, so the call was an update.
C16_Witness ==
    /\ lastError = IntervalError
    /\ Len(db) = MaxBookings


\* The stored booking b claims day d of room r: it is not canceled, its
\* room is r and checkIn <= d < checkOut.
Claims(b, r, d) ==
    /\ b.status # "canceled"
    /\ b.room = r
    /\ b.checkIn <= 24 * d /\ 24 * d < b.checkOut

\* The rooms and days of the write path's stays.
WriteRooms == {"A1", "A2", "R1", "X9"}
WriteDays == 67..73

\* C17: no double booking.  In every state reachable by createBooking,
\* bulkImportBookings and updateBooking, for each room and day at most one
\* non-canceled stored booking has checkIn <= day < checkOut.
C17_NoDoubleBooking ==
    \A r \in WriteRooms : \A d \in WriteDays :
        Cardinality({i \in 1..Len(db) : Claims(db[i], r, d)}) <= 1


\* The room of every stored booking is one of the tenant's rooms.
C18_StoredRooms == \A i \in 1..Len(db) : HasRoom(rooms, db[i].room)

\* In the current state a createBooking, bulkImportBookings or
\* updateBooking naming a room the tenant does not have fails.
C18_UnknownRoomFails ==
    /\ \A input \in WriteInputs :
          ~HasRoom(rooms, input.room)
          => createBookingError(rooms, input, defaultTax) = "Invalid room"
    /\ \A inputs \in BulkInputs :
          (\E k \in 1..Len(inputs) : ~HasRoom(rooms, inputs[k].room))
          => bulkImportBookingsError(rooms, inputs, defaultTax) # ""
    /\ \A i \in 1..Len(db) : \A input \in UpdateInputs :
          (Has(input, "room") /\ ~HasRoom(rooms, input.room))
          => updateBookingError(db[i], input, defaultTax) # ""

\* C18: room referential integrity.  In every state reachable by
\* createBooking, bulkImportBookings, updateBooking, addRoom and removeRoom
\* the room of every stored booking is the id of one of its tenant's rooms,
\* and a write naming an unknown room is rejected.
C18_RoomIntegrity == C18_StoredRooms /\ C18_UnknownRoomFails


\* The stored bookings that were not written as CANCELED (the resolvers
\* store the status lower-cased).
StoredLive ==
    LET Live(b) == b.status # "canceled" IN SelectSeq(db, Live)

\* getOccupancyReport counts no night of a stored CANCELED booking.
C19_Occupancy ==
    \A room \in {"", "A1", "A2"} : \A m \in BookedMonths :
        getOccupancyReport(db, room, m).occupiedNights
            = getOccupancyReport(StoredLive, room, m).occupiedNights

\* getRevenueReport counts nothing of a stored CANCELED booking.
C19_Revenue ==
    \A m \in BookedMonths : getRevenueReport(db, m) = getRevenueReport(StoredLive, m)

\* C19: server reports exclude canceled bookings.  Once a booking is
\* stored with status CANCELED by createBooking or updateBooking, every
\* getOccupancyReport counts zero occupied nights for it and every
\* getRevenueReport counts zero of its totalPrice, deposit and remaining
\* and does not count it in bookingCount.
C19_ServerReportsExcludeCanceled == C19_Occupancy /\ C19_Revenue

\* --------------------------------------------------- list: status groups

\* The clock steps a session of the list view sees pass.
ClockSteps == 4

\* A day and a half passes; the memoised list and report are kept, none
\* of their dependencies having changed.
Tick ==
    /\ now + Elapse <= FirstNow + Elapse * ClockSteps
    /\ now' = now + Elapse
    /\ UNCHANGED <<envVars, netVars, accountVars, writeVars, rooms, db, clientVars>>

\* Data written through the API, a session that works the list's status
\* filter, and time passing.
NextStatus ==
    \/ \E input \in BookingInputs : CreateBooking(input)
    \/ Mount
    \/ Tick
    \/ \E v \in StatusGroups : SetListFilter(v)

SpecStatus == Init /\ [][NextStatus]_vars

\* Today's calendar day in the browser.
TodayDay == LocalDay(now, tz)

\* The status groups by calendar dates: the booking's check-in and
\* check-out dates against today's date.
InGroup(b, group) ==
    CASE group = "all" -> TRUE
      [] group = "canceled" -> b.status = "CANCELED"
      [] group = "upcoming" -> b.status # "CANCELED" /\ DayOf(b.checkIn) >= TodayDay
      [] group = "active" ->
            /\ b.status # "CANCELED"
            /\ DayOf(b.checkIn) < TodayDay /\ TodayDay < DayOf(b.checkOut)
      [] group = "past" -> b.status # "CANCELED" /\ DayOf(b.checkOut) <= TodayDay

\* The list view of a status group now, with an empty search box.
GroupList(group) == filteredBookings(bookings, <<>>, group, ListToday, tz)

\* The ids a list shows.
IdsOf(list) == {list[i].id : i \in 1..Len(list)}

\* Each status group selects exactly the bookings its definition names.
C20_GroupsExact ==
    \A group \in StatusGroups :
        IdsOf(GroupList(group)) =
            {bookings[i].id : i \in {j \in 1..Len(bookings) : InGroup(bookings[j], group)}}

\* The four named groups are pairwise disjoint and their union is 'all'.
C20_Partition ==
    /\ \A g, h \in StatusGroups \ {"all"} :
          g # h => IdsOf(GroupList(g)) \cap IdsOf(GroupList(h)) = {}
    /\ UNION {IdsOf(GroupList(g)) : g \in StatusGroups \ {"all"}}
          = IdsOf(GroupList("all"))

\* Every group's list is ordered by checkIn descending.
C20_Ordered ==
    \A group \in StatusGroups :
        \A i, j \in 1..Len(GroupList(group)) :
            i < j => StrLE(GroupList(group)[j].checkIn, GroupList(group)[i].checkIn)

\* C20: status groups of the list view.  'canceled' selects exactly the
\* CANCELED bookings, 'upcoming' the non-canceled ones with checkIn >=
\* today, 'active' those with checkIn < today < checkOut, 'past' those with
\* checkOut <= today, 'all' everything; the four named groups are pairwise
\* disjoint with union 'all', and each list is ordered by checkIn
\* descending.
C20_StatusGroups == C20_GroupsExact /\ C20_Partition /\ C20_Ordered


\* ------------------------------------------- client: loads that can fail

\* dataService.getBookingsByDateRange with the server reachable or not: the
\* catch block logs the failure and answers [].
dataServiceGetBookingsByDateRange(reach, store, startDate, endDate) ==
    IF reach THEN FetchRange(store, startDate, endDate) ELSE <<>>

\* The months a scroll position or a refresh asks for.
LoadMonthChoices == {1, 2, 3}

\* The entries the in-memory list may come to hold.
MaxHeld == 3

\* The connection to the server is lost and comes back.
GoOffline ==
    /\ Mounted /\ online
    /\ online' = FALSE
    /\ UNCHANGED <<envVars, inflight, accountVars, writeVars, now, rooms, db, clientVars>>

GoOnline ==
    /\ ~online
    /\ online' = TRUE
    /\ UNCHANGED <<envVars, inflight, accountVars, writeVars, now, rooms, db, clientVars>>

\* loadMonthBookings(date in month m, force) with the fetch going through
\* dataService: a scroll-triggered load (force = FALSE) or a refresh.
LoadMonth(m, force) ==
    /\ Mounted /\ ~Crashed
    /\ force \/ m \notin loadedMonths
    /\ LET monthBookings == dataServiceGetBookingsByDateRange(
                                online, db, MonthStartStr(m), MonthEndStr(m))
           merged == MergeMonth(bookings, m, monthBookings, tz)
       IN /\ Len(merged) <= MaxHeld
          /\ bookings' = merged
          /\ loadedMonths' = loadedMonths \cup {m}
          /\ reportOut' = Memo(merged, reportStartDate, reportEndDate, reportRoomFilter,
                               reportType, rooms)
          /\ listOut' = ListMemo(merged, listSearchTerm, listFilter)
    /\ UNCHANGED <<envVars, netVars, accountVars, writeVars, now, rooms, db, reportControls,
                   listSearchTerm, listFilter>>

NextOffline ==
    \/ \E input \in BookingInputs : CreateBooking(input)
    \/ Mount
    \/ GoOffline
    \/ GoOnline
    \/ \E m \in LoadMonthChoices, force \in BOOLEAN : LoadMonth(m, force)

SpecOffline == Init /\ [][NextOffline]_vars

\* C21: while the fetch of a month's bookings fails, a load leaves the
\* bookings held in memory, those of that month included, as they were.
C21_FailedLoadKeepsBookings == [][~online => bookings' = bookings]_vars


\* --------------------------------------------- server: bookings by tenant

\* requireAuth(context) for a caller, a tenant id taken from the token or ""
\* when the request carries no valid token: the error it throws.
requireAuth(caller) == IF caller = "" THEN "Authentication required" ELSE ""

\* A query with no tenant condition in its where clause.
AllRows(tbl, tenantId) == tbl

\* where: { tenantId: context.tenantId }
TenantRows(tbl, tenantId) ==
    LET Own(b) == b.tenantId = tenantId IN SelectSeq(tbl, Own)

\* Mutation.register: a new tenant on trial, with rooms A1..A5.
RegisteredTenant ==
    [subscriptionStatus |-> "TRIAL", isAdmin |-> FALSE, defaultTax |-> 0,
     rooms |-> <<"A1", "A2", "A3", "A4", "A5">>]

\* The answer of a resolver that throws.
Refusal(op, caller, ids, err) ==
    [op |-> op, caller |-> caller, arg |-> ids, error |-> err, rows |-> <<>>,
     report |-> [error |-> ""], tenant |-> ""]

\* The answer of a resolver that returns bookings.
Rows(op, caller, ids, rows) ==
    [op |-> op, caller |-> caller, arg |-> ids, error |-> "", rows |-> rows,
     report |-> [error |-> ""], tenant |-> ""]

\* The answer of a resolver that returns a report.
Report(op, caller, report) ==
    [op |-> op, caller |-> caller, arg |-> {}, error |-> "", rows |-> <<>>,
     report |-> report, tenant |-> ""]

\* The id the next stored booking gets: ids are never used twice.
NextBookingId == (now - FirstNow) \div Elapse + 1

\* Who calls: nobody authenticated, or a user of a tenant.
Callers == {""} \cup DOMAIN tenants

\* The callers there can be: nobody, or a user of a seeded or registered tenant.
CallerChoices == {"", "admin", "demo", "t1"}

\* The bookings the table may come to hold.
MaxRows == 2

\* Stays from 2026-03-10 and 2026-03-11 for 3 nights in room A1.
TenantInputs ==
    {[guestName |-> Guests[1].guestName, guestPhone |-> Guests[1].guestPhone,
      city |-> Guests[1].city, room |-> "A1",
      checkIn |-> DateStr(d), checkOut |-> DateStr(d + 3),
      nightPrice |-> 50, deposit |-> 20, status |-> ""] : d \in {68, 69}}

\* A BookingInput that reprices the stay of 2026-03-10.
TenantUpdateInput ==
    [guestName |-> Guests[1].guestName, guestPhone |-> Guests[1].guestPhone,
     city |-> Guests[1].city, room |-> "A1",
     checkIn |-> DateStr(68), checkOut |-> DateStr(71),
     nightPrice |-> 80, deposit |-> 20]

\* The ids a call can name.
IdChoices == 1..MaxRows

Register ==
    /\ "t1" \notin DOMAIN tenants
    /\ tenants' = [t \in DOMAIN tenants \cup {"t1"} |->
                      IF t = "t1" THEN RegisteredTenant ELSE tenants[t]]
    /\ reply' = [NoReply EXCEPT !.op = "register", !.tenant = "t1"]
    /\ UNCHANGED <<envVars, netVars, table, writeVars, now, rooms, db, clientVars>>

\* Mutation.createBooking called with the token of caller.
TenantCreateBooking(caller, input) ==
    /\ caller \in Callers
    /\ NextBookingId <= MaxRows
    /\ IF requireAuth(caller) # ""
       THEN /\ reply' = Refusal("createBooking", caller, {}, requireAuth(caller))
            /\ UNCHANGED <<table, now>>
       ELSE LET tenant == tenants[caller]
                err == createBookingError(tenant.rooms, input, tenant.defaultTax)
                row == NewBookingRow(input,
                                     calculateBookingDetails(input, tenant.defaultTax),
                                     NextBookingId, now)
                       @@ [tenantId |-> caller]
            IN IF err # ""
               THEN /\ reply' = Refusal("createBooking", caller, {}, err)
                    /\ UNCHANGED <<table, now>>
               ELSE /\ table' = Append(table, row)
                    /\ now' = now + Elapse
                    /\ reply' = Rows("createBooking", caller, {}, <<normalizeBooking(row)>>)
    /\ UNCHANGED <<envVars, netVars, tenants, writeVars, rooms, db, clientVars>>

\* Query.getBookings with no filter: the tenant's bookings, latest check-in
\* first.
TenantGetBookings(caller) ==
    /\ caller \in Callers
    /\ reply' = IF requireAuth(caller) # ""
                THEN Refusal("getBookings", caller, {}, requireAuth(caller))
                ELSE LET found == TenantRows(table, caller)
                     IN Rows("getBookings", caller, {},
                             MapNormalize(SortAsc(found,
                                 [i \in 1..Len(found) |-> -found[i].checkIn])))
    /\ UNCHANGED <<envVars, netVars, tenants, table, writeVars, now, rooms, db, clientVars>>

\* Query.getBooking(id)
TenantGetBooking(caller, id) ==
    /\ caller \in Callers
    /\ reply' = IF requireAuth(caller) # ""
                THEN Refusal("getBooking", caller, {id}, requireAuth(caller))
                ELSE IF ~HasBooking(TenantRows(table, caller), id)
                THEN Refusal("getBooking", caller, {id}, "Booking not found")
                ELSE Rows("getBooking", caller, {id},
                          <<normalizeBooking(BookingById(TenantRows(table, caller), id))>>)
    /\ UNCHANGED <<envVars, netVars, tenants, table, writeVars, now, rooms, db, clientVars>>

\* Query.getBookingsByDateRange for March 2026.
TenantGetBookingsByDateRange(caller) ==
    /\ caller \in Callers
    /\ reply' = IF requireAuth(caller) # ""
                THEN Refusal("getBookingsByDateRange", caller, {}, requireAuth(caller))
                ELSE Rows("getBookingsByDateRange", caller, {},
                          getBookingsByDateRange(TenantRows(table, caller),
                                                 MonthStartStr(3), MonthEndStr(3)).rows)
    /\ UNCHANGED <<envVars, netVars, tenants, table, writeVars, now, rooms, db, clientVars>>

\* Query.getBookingsByRoom(room)
TenantGetBookingsByRoom(caller, room) ==
    /\ caller \in Callers
    /\ reply' = IF requireAuth(caller) # ""
                THEN Refusal("getBookingsByRoom", caller, {}, requireAuth(caller))
                ELSE LET InRoom(b) == b.room = room
                         found == SelectSeq(TenantRows(table, caller), InRoom)
                     IN Rows("getBookingsByRoom", caller, {},
                             MapNormalize(SortAsc(found,
                                 [i \in 1..Len(found) |-> -found[i].checkIn])))
    /\ UNCHANGED <<envVars, netVars, tenants, table, writeVars, now, rooms, db, clientVars>>

\* Query.getOccupancyReport(room, 2026, 3)
TenantGetOccupancyReport(caller, room) ==
    /\ caller \in Callers
    /\ reply' = IF requireAuth(caller) # ""
                THEN Refusal("getOccupancyReport", caller, {}, requireAuth(caller))
                ELSE Report("getOccupancyReport", caller,
                            getOccupancyReport(TenantRows(table, caller), room, 3))
    /\ UNCHANGED <<envVars, netVars, tenants, table, writeVars, now, rooms, db, clientVars>>

\* Query.getRevenueReport(2026, 3)
TenantGetRevenueReport(caller) ==
    /\ caller \in Callers
    /\ reply' = IF requireAuth(caller) # ""
                THEN Refusal("getRevenueReport", caller, {}, requireAuth(caller))
                ELSE Report("getRevenueReport", caller,
                            getRevenueReport(TenantRows(table, caller), 3))
    /\ UNCHANGED <<envVars, netVars, tenants, table, writeVars, now, rooms, db, clientVars>>

\* Mutation.updateBooking(id, input): findFirst by id and tenant, then
\* prisma.booking.update by id.
TenantUpdateBooking(caller, id, input) ==
    /\ caller \in Callers
    /\ IF requireAuth(caller) # ""
       THEN /\ reply' = Refusal("updateBooking", caller, {id}, requireAuth(caller))
            /\ UNCHANGED table
       ELSE IF ~HasBooking(TenantRows(table, caller), id)
       THEN /\ reply' = Refusal("updateBooking", caller, {id}, "Booking not found")
            /\ UNCHANGED table
       ELSE LET booking == BookingById(TenantRows(table, caller), id)
                taxRate == tenants[caller].defaultTax
                err == updateBookingError(booking, input, taxRate)
                row == updateBookingRow(booking, input, taxRate)
            IN IF err # ""
               THEN /\ reply' = Refusal("updateBooking", caller, {id}, err)
                    /\ UNCHANGED table
               ELSE /\ table' = UpdateStore(table, id, row)
                    /\ reply' = Rows("updateBooking", caller, {id}, <<normalizeBooking(row)>>)
    /\ UNCHANGED <<envVars, netVars, tenants, writeVars, now, rooms, db, clientVars>>

\* Mutation.deleteBooking(id): findFirst by id and tenant, then
\* prisma.booking.delete by id.
TenantDeleteBooking(caller, id) ==
    /\ caller \in Callers
    /\ IF requireAuth(caller) # ""
       THEN /\ reply' = Refusal("deleteBooking", caller, {id}, requireAuth(caller))
            /\ UNCHANGED table
       ELSE IF ~HasBooking(TenantRows(table, caller), id)
       THEN /\ reply' = Refusal("deleteBooking", caller, {id}, "Booking not found")
            /\ UNCHANGED table
       ELSE LET Other(b) == b.id # id
            IN /\ table' = SelectSeq(table, Other)
               /\ reply' = Rows("deleteBooking", caller, {id}, <<>>)
    /\ UNCHANGED <<envVars, netVars, tenants, writeVars, now, rooms, db, clientVars>>

\* Mutation.bulkDeleteBookings(ids): deleteMany by ids and tenant.
TenantBulkDeleteBookings(caller, ids) ==
    /\ caller \in Callers
    /\ IF requireAuth(caller) # ""
       THEN /\ reply' = Refusal("bulkDeleteBookings", caller, ids, requireAuth(caller))
            /\ UNCHANGED table
       ELSE IF ids = {}
       THEN /\ reply' = Refusal("bulkDeleteBookings", caller, ids, "No booking IDs provided")
            /\ UNCHANGED table
       ELSE LET Kept(b) == ~(b.id \in ids /\ HasBooking(TenantRows(table, caller), b.id))
            IN /\ table' = SelectSeq(table, Kept)
               /\ reply' = Rows("bulkDeleteBookings", caller, ids, <<>>)
    /\ UNCHANGED <<envVars, netVars, tenants, writeVars, now, rooms, db, clientVars>>

NextTenants ==
    \/ Register
    \/ \E caller \in CallerChoices, input \in TenantInputs : TenantCreateBooking(caller, input)
    \/ \E caller \in CallerChoices : TenantGetBookings(caller)
    \/ \E caller \in CallerChoices, id \in IdChoices : TenantGetBooking(caller, id)
    \/ \E caller \in CallerChoices : TenantGetBookingsByDateRange(caller)
    \/ \E caller \in CallerChoices : TenantGetBookingsByRoom(caller, "A1")
    \/ \E caller \in CallerChoices : TenantGetOccupancyReport(caller, "A1")
    \/ \E caller \in CallerChoices : TenantGetRevenueReport(caller)
    \/ \E caller \in CallerChoices, id \in IdChoices :
           TenantUpdateBooking(caller, id, TenantUpdateInput)
    \/ \E caller \in CallerChoices, id \in IdChoices : TenantDeleteBooking(caller, id)
    \/ \E caller \in CallerChoices, ids \in SUBSET IdChoices :
           TenantBulkDeleteBookings(caller, ids)

SpecTenants == Init /\ [][NextTenants]_vars

\* The bookings of a tenant, and those of all other tenants.
OwnedBy(tbl, t) == LET Own(b) == b.tenantId = t IN SelectSeq(tbl, Own)
OwnedByOthers(tbl, t) == LET Foreign(b) == b.tenantId # t IN SelectSeq(tbl, Foreign)

\* The calls on bookings.
BookingOps ==
    {"createBooking", "getBookings", "getBooking", "getBookingsByDateRange",
     "getBookingsByRoom", "getOccupancyReport", "getRevenueReport",
     "updateBooking", "deleteBooking", "bulkDeleteBookings"}

\* Every booking an answer carries belongs to the caller's tenant.
C22_OnlyOwnRows ==
    \A i \in 1..Len(reply.rows) : reply.rows[i].tenantId = reply.caller

\* A report is the one computed over the caller's bookings alone.
C22_ReportsScoped ==
    /\ (reply.op = "getOccupancyReport" /\ reply.error = "") =>
           reply.report = getOccupancyReport(OwnedBy(table, reply.caller), "A1", 3)
    /\ (reply.op = "getRevenueReport" /\ reply.error = "") =>
           reply.report = getRevenueReport(OwnedBy(table, reply.caller), 3)

\* The call named an id that another tenant owns.
NamesForeignId ==
    /\ reply.caller # ""
    /\ \E i \in 1..Len(table) :
           table[i].id \in reply.arg /\ table[i].tenantId # reply.caller

C22_ForeignIdNotFound ==
    (reply.op \in {"getBooking", "updateBooking", "deleteBooking"} /\ NamesForeignId)
        => reply.error = "Booking not found"

C22_Anonymous ==
    (reply.op \in BookingOps /\ reply.caller = "")
        => reply.error = "Authentication required"

\* A call leaves the bookings of every tenant but the caller's as they were.
C22_OthersUntouched ==
    OwnedByOthers(table', reply'.caller) = OwnedByOthers(table, reply'.caller)

\* C22: every booking query and mutation is scoped to the caller's tenant:
\* answers and reports carry the caller's bookings only, an id of another
\* tenant is 'Booking not found' or skipped, other tenants' bookings stay
\* unchanged, and an anonymous caller gets 'Authentication required'.
C22_TenantIsolation ==
    /\ [](C22_OnlyOwnRows /\ C22_ReportsScoped /\ C22_ForeignIdNotFound /\ C22_Anonymous)
    /\ [][C22_OthersUntouched]_vars

\* bulkDeleteBookings was given its own and another tenant's id, and the
\* other tenant's booking is still stored.
C22_Witness ==
    /\ reply.op = "bulkDeleteBookings" /\ reply.error = ""
    /\ Cardinality(reply.arg) = 2
    /\ NamesForeignId


\* ------------------------------------------------ report: clamped overlap

\* The bookings the occupied-day loop of room r tests, under the report
\* controls.
LoopBookings(r) ==
    LET InRoom(b) == b.room = r
    IN SelectSeq(ReportFiltered(bookings, reportStartDate, reportEndDate,
                                reportRoomFilter, reportType), InRoom)

\* The occupied-day loop of room r counts calendar day d.
CountsDay(r, d) ==
    \E k \in 0..(DaysInReport(reportStartDate, reportEndDate, tz) - 1) :
        /\ format(addDays(parseISO(reportStartDate, tz), k), tz) = DateStr(d)
        /\ IsOccupiedOn(LoopBookings(r), parseISO(reportStartDate, tz), k, tz)

\* The nights of booking b that lie inside the report window.
ClampedOverlap(b) ==
    {d \in DayOf(reportStartDate)..DayOf(reportEndDate) :
        DayOf(b.checkIn) <= d /\ d < DayOf(b.checkOut)}

\* Booking b is live, passes the room filter, and its stay starts before
\* the window or ends after it while some night lies inside.
SticksOut(b) ==
    /\ b.status # "CANCELED"
    /\ reportRoomFilter \in {"ALL", b.room}
    /\ \/ DayOf(b.checkIn) < DayOf(reportStartDate)
       \/ DayOf(b.checkOut) - 1 > DayOf(reportEndDate)
    /\ ClampedOverlap(b) # {}

\* C23: clamped overlap in per-room occupancy.  For every non-canceled
\* booking whose stay starts before reportStart or ends after reportEnd but
\* intersects the window, the room's occupied-day count includes every day
\* of the stay that lies inside the window.
C23_ClampedOverlap ==
    \A i \in 1..Len(bookings) :
        SticksOut(bookings[i]) =>
            \A d \in ClampedOverlap(bookings[i]) : CountsDay(bookings[i].room, d)


\* ------------------------------------------------ report: monthly revenue

\* The months monthlyStats has an entry for, in its order.
ReportMonths ==
    eachMonthOfInterval(parseISO(reportStartDate, tz), parseISO(reportEndDate, tz),
                        tz, dateFns).months

\* The day the basis date of b falls on: checkIn in stay mode, the date
\* part of createdAt in created mode.
BasisDay(b, type) == IF type = "stay" THEN DayOf(b.checkIn) ELSE DayOf(b.createdAt)

\* b counts toward the revenue of month m: it is live, matches the room
\* filter, its stay intersects m and its basis date falls inside m.
CountsToward(b, m, type) ==
    /\ b.status # "CANCELED"
    /\ reportRoomFilter \in {"ALL", b.room}
    /\ DayOf(b.checkIn) <= MonthLast(m) /\ DayOf(b.checkOut) > MonthStart(m)
    /\ MonthStart(m) <= BasisDay(b, type) /\ BasisDay(b, type) <= MonthLast(m)

BasisRevenue(m, type) ==
    Sum([i \in 1..Len(bookings) |->
            IF CountsToward(bookings[i], m, type) THEN bookings[i].totalPrice ELSE 0])

\* C24: monthly revenue follows the basis date.  For each month M of the
\* report, revenue(M) is the sum of totalPrice over the non-canceled,
\* room-matching bookings whose stay intersects M and whose basis date,
\* checkIn in stay mode and the date of createdAt in created mode, falls
\* inside M.
C24_MonthlyRevenue ==
    ~Crashed =>
        \A i \in 1..Len(reportOut.monthlyStats) :
            reportOut.monthlyStats[i].revenue = BasisRevenue(ReportMonths[i], reportType)


\* ------------------------------------------- client: handlers that write

\* The tenant the app is signed in as.
Session == "session"

\* Browser offsets of the sessions: New York (winter), UTC and Muscat.
ClientTzOffsets == {-5, 0, 4}

\* What the booking form is filled with, <<room, checkIn day, nights,
\* guest, status>>: A1 from 2026-03-01 and from 2026-03-10 for 3 nights, A2
\* from 2026-02-25 for 8 nights, and a stay stored as CANCELED before the
\* session.
ClientStays ==
    {<<"A1", 59, 3, 1, "">>, <<"A1", 68, 3, 2, "">>,
     <<"A2", 55, 8, 3, "">>, <<"A2", 68, 3, 3, "CANCELED">>}

ClientInputs ==
    {[guestName |-> Guests[st[4]].guestName, guestPhone |-> Guests[st[4]].guestPhone,
      city |-> Guests[st[4]].city,
      room |-> st[1], checkIn |-> DateStr(st[2]), checkOut |-> DateStr(st[2] + st[3]),
      nightPrice |-> 50, deposit |-> 0, status |-> st[5]] : st \in ClientStays}

\* The state after construction, in a browser of one of the sessions.
InitClient ==
    /\ tz \in ClientTzOffsets
    /\ dateFns = 3
    /\ now = FirstNow
    /\ rooms = DEFAULT_ROOMS
    /\ db = <<>>
    /\ bookings = <<>>
    /\ loadedMonths = {}
    /\ reportStartDate = MonthStartStr(formatMonth(FirstNow, tz))
    /\ reportEndDate = MonthEndStr(formatMonth(FirstNow, tz))
    /\ reportRoomFilter = "ALL"
    /\ reportType = "stay"
    /\ reportOut = reportData(<<>>, MonthStartStr(formatMonth(FirstNow, tz)),
                              MonthEndStr(formatMonth(FirstNow, tz)), "ALL", "stay",
                              DEFAULT_ROOMS, tz, 3)
    /\ listSearchTerm = <<>>
    /\ listFilter = "upcoming"
    /\ listOut = <<>>
    /\ defaultTax = 0
    /\ lastError = ""
    /\ calls = 0
    /\ online = TRUE
    /\ inflight = {}
    /\ tenants = SeedTenants
    /\ table = <<>>
    /\ reply = NoReply

\* The bookingInput handleAddBooking builds from the form.
bookingInput(newBooking) == [newBooking EXCEPT !.status = "UPCOMING"]

\* handleAddBooking(newBooking): dataService.addBooking, whose catch block
\* swallows a refusal of the server, then a refresh of the check-in's month.
HandleAddBooking(newBooking) ==
    /\ Mounted /\ ~Crashed /\ online
    /\ Len(db) < MaxBookings
    /\ LET input == bookingInput(newBooking)
           err == IF bookingInputError(input) # "" THEN bookingInputError(input)
                  ELSE createBookingError(rooms, input, defaultTax)
           row == NewBookingRow(input, calculateBookingDetails(input, defaultTax),
                                Len(db) + 1, now)
           store == IF err = "" THEN Append(db, row) ELSE db
           r == loadMonthBookings(bookings, loadedMonths, store,
                                  formatMonth(parseISO(newBooking.checkIn, tz), tz),
                                  TRUE, tz)
       IN /\ Answer(err)
          /\ Len(r[1]) <= MaxHeld
          /\ db' = store
          /\ now' = IF err = "" THEN now + Elapse ELSE now
          /\ reply' = IF err = ""
                      THEN Rows("createBooking", Session, {row.id}, <<normalizeBooking(row)>>)
                      ELSE Refusal("createBooking", Session, {}, err)
          /\ bookings' = r[1]
          /\ loadedMonths' = r[2]
          /\ reportOut' = Memo(r[1], reportStartDate, reportEndDate, reportRoomFilter,
                               reportType, rooms)
          /\ listOut' = filteredBookings(r[1], listSearchTerm, listFilter,
                                         startOfToday(now', tz), tz)
    /\ UNCHANGED <<envVars, netVars, tenants, table, defaultTax, rooms, reportControls,
                   listSearchTerm, listFilter>>

\* The status the button of BookingDetailsModal passes to onUpdateStatus.
ModalStatus(booking) == IF booking.status # "canceled" THEN "canceled" ELSE "confirmed"

\* handleUpdateBookingStatus(id, status) from the button of the details
\* modal of the in-memory booking id: dataService.updateBooking with
\* { status } as the BookingInput, whose catch block swallows a refusal of
\* the server, then a refresh of the booking's month.
HandleUpdateBookingStatus(id) ==
    /\ Mounted /\ ~Crashed /\ online
    /\ HasBooking(bookings, id)
    /\ LET selectedBooking == BookingById(bookings, id)
           input == [status |-> ModalStatus(selectedBooking)]
           err == IF bookingInputError(input) # "" THEN bookingInputError(input)
                  ELSE IF ~HasBooking(db, id) THEN "Booking not found"
                  ELSE updateBookingError(BookingById(db, id), input, defaultTax)
           store == IF err = ""
                    THEN UpdateStore(db, id,
                                     updateBookingRow(BookingById(db, id), input, defaultTax))
                    ELSE db
           r == loadMonthBookings(bookings, loadedMonths, store,
                                  formatMonth(parseISO(selectedBooking.checkIn, tz), tz),
                                  TRUE, tz)
       IN /\ Answer(err)
          /\ Len(r[1]) <= MaxHeld
          /\ db' = store
          /\ reply' = IF err = ""
                      THEN Rows("updateBooking", Session, {id}, <<>>)
                      ELSE Refusal("updateBooking", Session, {id}, err)
          /\ bookings' = r[1]
          /\ loadedMonths' = r[2]
          /\ reportOut' = Memo(r[1], reportStartDate, reportEndDate, reportRoomFilter,
                               reportType, rooms)
          /\ listOut' = ListMemo(r[1], listSearchTerm, listFilter)
    /\ UNCHANGED <<envVars, netVars, tenants, table, defaultTax, now, rooms, reportControls,
                   listSearchTerm, listFilter>>

NextClient ==
    \/ \E input \in ClientInputs : CreateBooking(input)
    \/ Mount
    \/ \E m \in LoadMonthChoices, force \in BOOLEAN : LoadMonth(m, force)
    \/ \E newBooking \in ClientInputs : HandleAddBooking(newBooking)
    \/ \E id \in 1..MaxBookings : HandleUpdateBookingStatus(id)

SpecClient == InitClient /\ [][NextClient]_vars

\* The stored and the in-memory booking id are both canceled.
CanceledEverywhere(store, bks, id) ==
    /\ HasBooking(store, id) /\ BookingById(store, id).status = "canceled"
    /\ HasBooking(bks, id) /\ BookingById(bks, id).status = "CANCELED"

\* The stored and the in-memory booking id are both not canceled.
LiveEverywhere(store, bks, id) ==
    /\ HasBooking(store, id) /\ BookingById(store, id).status # "canceled"
    /\ HasBooking(bks, id) /\ BookingById(bks, id).status # "CANCELED"

\* handleUpdateBookingStatus has just completed for a booking of the list.
C25_Completed == calls' = calls + 1 /\ reply'.op = "updateBooking"

\* C25: canceling from the UI takes effect.  After handleUpdateBookingStatus
\* completes for the button of a booking that was not canceled, the stored
\* status is CANCELED and the in-memory list holds the booking as CANCELED;
\* for a canceled booking the button restores a non-canceled status.
C25_CancelTakesEffect ==
    [][C25_Completed =>
          \A id \in reply'.arg :
              IF BookingById(bookings, id).status # "CANCELED"
              THEN CanceledEverywhere(db', bookings', id)
              ELSE LiveEverywhere(db', bookings', id)]_vars


\* ------------------------------------------------------ server: accounts

\* requireSuperAdmin(context): the error it throws.
requireSuperAdmin(caller) ==
    IF caller = "" THEN "Authentication required"
    ELSE IF ~(caller \in DOMAIN tenants /\ tenants[caller].isAdmin)
    THEN "Admin access required"
    ELSE ""

\* The tenant ids a call can name: the seeded tenants, the registered one
\* and an id no tenant has.
TenantIdChoices == {"admin", "demo", "t1", "zz"}

\* The days createAdminSubscription is asked to grant.
DaysChoices == {0, 30}

\* The answer of a resolver that returns tenant id's data.
TenantData(op, caller, ids, id) ==
    [op |-> op, caller |-> caller, arg |-> ids, error |-> "", rows |-> <<>>,
     report |-> [error |-> ""], tenant |-> id]

\* Query.getTenant(id)
GetTenant(caller, id) ==
    /\ caller \in Callers
    /\ reply' = IF caller = ""
                THEN Refusal("getTenant", caller, {id}, "Authentication required")
                ELSE IF caller # id /\ caller = ""
                THEN Refusal("getTenant", caller, {id}, "Unauthorized")
                ELSE IF id \notin DOMAIN tenants
                THEN Refusal("getTenant", caller, {id}, "Tenant not found")
                ELSE TenantData("getTenant", caller, {id}, id)
    /\ UNCHANGED <<envVars, netVars, tenants, table, writeVars, now, rooms, db, clientVars>>

\* Mutation.login(email, password) with the email of tenant id; passwordMatch
\* is the result of bcrypt.compare.
Login(id, passwordMatch) ==
    /\ reply' = IF id \notin DOMAIN tenants
                THEN Refusal("login", "", {id}, "Invalid credentials")
                ELSE IF ~passwordMatch
                THEN Refusal("login", "", {id}, "Invalid credentials")
                ELSE IF tenants[id].subscriptionStatus \in {"EXPIRED", "CANCELED"}
                THEN Refusal("login", "", {id},
                             "Subscription expired. Please renew to continue.")
                ELSE TenantData("login", "", {id}, id)
    /\ UNCHANGED <<envVars, netVars, tenants, table, writeVars, now, rooms, db, clientVars>>

\* Mutation.cancelSubscription(tenantId)
CancelSubscription(caller, id) ==
    /\ caller \in Callers
    /\ IF requireSuperAdmin(caller) # ""
       THEN /\ reply' = Refusal("cancelSubscription", caller, {id}, requireSuperAdmin(caller))
            /\ UNCHANGED tenants
       ELSE IF id \notin DOMAIN tenants
       THEN /\ reply' = Refusal("cancelSubscription", caller, {id}, "Tenant not found")
            /\ UNCHANGED tenants
       ELSE /\ tenants' = [tenants EXCEPT ![id].subscriptionStatus = "canceled"]
            /\ reply' = TenantData("cancelSubscription", caller, {id}, "")
    /\ UNCHANGED <<envVars, netVars, table, writeVars, now, rooms, db, clientVars>>

\* Mutation.createAdminSubscription(tenantId, days).  The resolver returns
\* the updated row as stored, whose lower-case status the response's
\* SubscriptionStatus enum cannot represent: the grant is stored and the
\* call is answered with that error.
CreateAdminSubscription(caller, id, days) ==
    /\ caller \in Callers
    /\ IF requireSuperAdmin(caller) # ""
       THEN /\ reply' = Refusal("createAdminSubscription", caller, {id},
                                requireSuperAdmin(caller))
            /\ UNCHANGED tenants
       ELSE IF days <= 0
       THEN /\ reply' = Refusal("createAdminSubscription", caller, {id},
                                "Days must be positive")
            /\ UNCHANGED tenants
       ELSE IF id \notin DOMAIN tenants
       THEN /\ reply' = Refusal("createAdminSubscription", caller, {id}, "Tenant not found")
            /\ UNCHANGED tenants
       ELSE /\ tenants' = [tenants EXCEPT ![id].subscriptionStatus = "active"]
            /\ reply' = Refusal("createAdminSubscription", caller, {id},
                                "Enum \"SubscriptionStatus\" cannot represent value: \"active\"")
    /\ UNCHANGED <<envVars, netVars, table, writeVars, now, rooms, db, clientVars>>

NextAccounts ==
    \/ Register
    \/ \E caller \in CallerChoices, id \in TenantIdChoices : GetTenant(caller, id)
    \/ \E id \in TenantIdChoices, passwordMatch \in BOOLEAN : Login(id, passwordMatch)
    \/ \E caller \in CallerChoices, id \in TenantIdChoices : CancelSubscription(caller, id)
    \/ \E caller \in CallerChoices, id \in TenantIdChoices, days \in DaysChoices :
           CreateAdminSubscription(caller, id, days)

SpecAccounts == Init /\ [][NextAccounts]_vars

\* C26: a user can only read their own tenant.  getTenant(id) called by an
\* authenticated user whose tenantId differs from id is refused with
\* 'Unauthorized' and returns no data of the other tenant.
C26_OwnTenantOnly ==
    (reply.op = "getTenant" /\ reply.caller # "" /\ reply.caller \notin reply.arg)
        => (reply.error = "Unauthorized" /\ reply.tenant = "")

\* The subscription of the tenant a login names is canceled and has not
\* been granted again, or has been granted by the administrator.
LoginOfCanceled ==
    /\ reply.op = "login"
    /\ \E id \in reply.arg :
           id \in DOMAIN tenants /\ tenants[id].subscriptionStatus = "canceled"

LoginOfGranted ==
    /\ reply.op = "login"
    /\ \E id \in reply.arg :
           id \in DOMAIN tenants /\ tenants[id].subscriptionStatus = "active"

\* C30: a canceled subscription blocks login.  After cancelSubscription
\* succeeds for a tenant, a login with its correct credentials is refused
\* with 'Subscription expired. Please renew to continue.' until
\* createAdminSubscription is called for it; after that login succeeds.
C30_CanceledBlocksLogin ==
    /\ (LoginOfCanceled /\ reply.error # "Invalid credentials")
           => reply.error = "Subscription expired. Please renew to continue."
    /\ (LoginOfGranted /\ reply.error # "Invalid credentials") => reply.error = ""


\* --------------------------------------------------- client: month cache

\* C27: the month cache has no duplicates.  After any sequence of completed
\* loadMonthBookings calls no two entries of the in-memory booking list
\* have the same id.
C27_NoDuplicateIds ==
    \A i, j \in 1..Len(bookings) : bookings[i].id = bookings[j].id => i = j


\* The stay of stored booking row has a night in month m.
StayIntersects(row, m) ==
    /\ row.checkIn \div 24 <= MonthLast(m)
    /\ row.checkOut \div 24 > MonthStart(m)

\* Every stored booking whose stay intersects a loaded month is in the
\* in-memory list.
C28_StoredIsLoaded ==
    \A i \in 1..Len(db) :
        (\E m \in loadedMonths : StayIntersects(db[i], m)) => HasBooking(bookings, db[i].id)

\* handleAddBooking has just completed with the server accepting the
\* booking, and the new booking is in the in-memory list.
C28_AddedIsVisible ==
    (calls' = calls + 1 /\ reply'.op = "createBooking" /\ reply'.error = "")
        => \A id \in reply'.arg : HasBooking(bookings', id)

\* C28: a created booking becomes visible.  After handleAddBooking
\* completes with the server accepting the booking, the new booking is in
\* the in-memory list, for every check-in date and number of nights; and
\* every stored booking whose stay intersects a loaded month is in the list.
C28_CreatedBecomesVisible ==
    []C28_StoredIsLoaded /\ [][C28_AddedIsVisible]_vars


\* ------------------------------------------ client: overlapping month loads

\* The month loads that may be awaiting their response at once.
MaxInflight == 2

\* What the booking form is filled with while loads are on their way: A1
\* from 2026-01-10 and from 2026-03-10 for 3 nights.
RaceInputs ==
    {[guestName |-> Guests[1].guestName, guestPhone |-> Guests[1].guestPhone,
      city |-> Guests[1].city, room |-> "A1",
      checkIn |-> DateStr(d), checkOut |-> DateStr(d + 3),
      nightPrice |-> 50, deposit |-> 0, status |-> ""] : d \in {9, 68}}

\* The response to the fetch of month m, as the server answers it now.
MonthResponse(store, m) ==
    [month |-> m,
     rows |-> dataServiceGetBookingsByDateRange(online, store,
                                                MonthStartStr(m), MonthEndStr(m))]

\* loadMonthBookings(date in month m) from the scroll loader, up to its
\* await: the month is not loaded yet, the query is sent and answered.
StartLoad(m) ==
    /\ Mounted /\ ~Crashed
    /\ m \notin loadedMonths
    /\ Cardinality(inflight) < MaxInflight
    /\ inflight' = inflight \cup {MonthResponse(db, m)}
    /\ UNCHANGED <<envVars, online, accountVars, writeVars, now, rooms, db, clientVars>>

\* handleAddBooking up to the await inside its refresh: the server stores
\* the booking, then the forced load of the check-in's month is sent and
\* answered.
StartAddBooking(newBooking) ==
    /\ Mounted /\ ~Crashed /\ online
    /\ Len(db) < MaxBookings
    /\ Cardinality(inflight) < MaxInflight
    /\ LET input == bookingInput(newBooking)
           err == IF bookingInputError(input) # "" THEN bookingInputError(input)
                  ELSE createBookingError(rooms, input, defaultTax)
           row == NewBookingRow(input, calculateBookingDetails(input, defaultTax),
                                Len(db) + 1, now)
           store == IF err = "" THEN Append(db, row) ELSE db
       IN /\ db' = store
          /\ now' = IF err = "" THEN now + Elapse ELSE now
          /\ inflight' = inflight \cup
                 {MonthResponse(store, formatMonth(parseISO(newBooking.checkIn, tz), tz))}
    /\ UNCHANGED <<envVars, online, accountVars, writeVars, rooms, clientVars>>

\* The response of a load of month m arrives: loadMonthBookings resumes
\* after its await with setBookings and setLoadedMonths.
FinishLoad(m) ==
    /\ ~Crashed
    /\ \E response \in inflight :
          /\ response.month = m
          /\ LET merged == MergeMonth(bookings, m, response.rows, tz)
             IN /\ bookings' = merged
                /\ loadedMonths' = loadedMonths \cup {m}
                /\ inflight' = inflight \ {response}
                /\ reportOut' = Memo(merged, reportStartDate, reportEndDate,
                                     reportRoomFilter, reportType, rooms)
                /\ listOut' = ListMemo(merged, listSearchTerm, listFilter)
    /\ UNCHANGED <<envVars, online, accountVars, writeVars, now, rooms, db, reportControls,
                   listSearchTerm, listFilter>>

NextRace ==
    \/ \E input \in RaceInputs : CreateBooking(input)
    \/ Mount
    \/ \E m \in LoadMonthChoices : StartLoad(m)
    \/ \E newBooking \in RaceInputs : StartAddBooking(newBooking)
    \/ \E m \in LoadMonthChoices : FinishLoad(m)

SpecRace == Init /\ [][NextRace]_vars

\* The in-memory bookings of month m.
HeldOfMonth(m) ==
    LET InMonth(b) == formatMonth(parseISO(b.checkIn, tz), tz) = m
    IN Range(SelectSeq(bookings, InMonth))

\* C29: overlapping month loads converge to the latest server state.  Once
\* every load in flight has completed, the in-memory bookings of each loaded
\* month equal the server's current bookings for that month.
C29_LoadsConverge ==
    inflight = {} =>
        \A m \in loadedMonths :
            HeldOfMonth(m) = Range(FetchRange(db, MonthStartStr(m), MonthEndStr(m)))

=============================================================================
